---- MODULE Spec2Model ----
(***************************************************************************)
(* The Grudgekeeper Tactics: the combat engine of the game store           *)
(* (useGameStore), the grid utilities and the dice utilities, as a state    *)
(* machine.  A cell is a pair <<x, y>> with 0-based coordinates, a unit id  *)
(* is the unit's index in the units array (the store uses opaque nanoid     *)
(* strings that are only ever compared for equality).  Fractional           *)
(* coordinates (cell corners and centers) are kept in hundredths of a cell. *)
(* Presentation-only fields (hoveredCell, lastCombat, animation fields,     *)
(* message and details strings of log entries) are left out.                *)
(***************************************************************************)
EXTENDS Integers, Sequences, FiniteSets, TLC

(***************************************************************************)
(* Program constants                                                       *)
(***************************************************************************)
GRID_SIZE == 8
ACTIONS_PER_TURN == 3

STORAGE_BAY_LAYOUT ==
  << <<"#","#","#","#","#","#","#","#">>,
     <<"#",".",".",".","#",".",".","#">>,
     <<"#",".","C",".","#",".","G","#">>,
     <<"#",".",".",".",".",".",".","#">>,
     <<"D",".",".",".","W",".",".","#">>,
     <<"#",".",".",".",".",".",".","#">>,
     <<"#",".","C",".","#",".","g","#">>,
     <<"#","#","#","#","#","#","#","#">> >>

\* Penalty schedule of successive strikes in one turn (constants module of the
\* ammo/MAP generation of the store is not part of the sources).
MAP_PENALTIES == <<0, -5, -10>>

Coords == 0 .. (GRID_SIZE - 1)
Cells == Coords \X Coords

Abs(n) == IF n < 0 THEN -n ELSE n
Max(a, b) == IF a >= b THEN a ELSE b
Min(a, b) == IF a <= b THEN a ELSE b
Sign(n) == IF n > 0 THEN 1 ELSE IF n < 0 THEN -1 ELSE 0

InGrid(x, y) == x >= 0 /\ x < GRID_SIZE /\ y >= 0 /\ y < GRID_SIZE

\* initializeGrid: the cell type of a layout character
CharType(char) ==
  IF char = "#" THEN "wall"
  ELSE IF char = "C" THEN "crate"
  ELSE IF char = "D" THEN "door"
  ELSE "floor"

\* initializeGrid: the cell type of the layout character at (x, y)
CellType(pos) == CharType(STORAGE_BAY_LAYOUT[pos[2] + 1][pos[1] + 1])

\* initializeGrid: the grid of the store, a cell type for every cell.  The
\* store assigns state.grid in initializeGame only, and every handler passes
\* this grid to the grid utilities.
initializeGrid == [pos \in Cells |-> CellType(pos)]

(***************************************************************************)
(* Geometry kernel (gridUtils)                                             *)
(***************************************************************************)
calculateDistance(pos1, pos2) ==
  Max(Abs(pos1[1] - pos2[1]), Abs(pos1[2] - pos2[2]))

\* the eight directions in the order the code lists them
Directions ==
  << <<-1,-1>>, <<0,-1>>, <<1,-1>>, <<-1,0>>, <<1,0>>, <<-1,1>>, <<0,1>>, <<1,1>> >>


getAdjacentPositions(pos) ==
  LET all == [i \in 1..8 |-> <<pos[1] + Directions[i][1], pos[2] + Directions[i][2]>>]
      ok(p) == InGrid(p[1], p[2])
  IN  SelectSeq(all, ok)

Range(s) == {s[i] : i \in DOMAIN s}

\* One Bresenham step from (x, y, err) toward `to`
BresenhamStep(x, y, err, from, to) ==
  LET dx == Abs(to[1] - from[1])
      dy == Abs(to[2] - from[2])
      sx == IF from[1] < to[1] THEN 1 ELSE -1
      sy == IF from[2] < to[2] THEN 1 ELSE -1
      e2 == 2 * err
      stepX == e2 > -dy
      stepY == e2 < dx
  IN  [x |-> IF stepX THEN x + sx ELSE x,
       y |-> IF stepY THEN y + sy ELSE y,
       err |-> (IF stepX THEN err - dy ELSE err) + (IF stepY THEN dx ELSE 0)]

RECURSIVE LinePositionsFrom(_, _, _, _, _)
LinePositionsFrom(x, y, err, from, to) ==
  IF x = to[1] /\ y = to[2] THEN << >>
  ELSE LET n == BresenhamStep(x, y, err, from, to)
           here == IF InGrid(n.x, n.y) THEN << <<n.x, n.y>> >> ELSE << >>
       IN  here \o LinePositionsFrom(n.x, n.y, n.err, from, to)

\* getLinePositions: cells of the Bresenham line, attacker's cell excluded,
\* target's cell included
getLinePositions(from, to) ==
  LinePositionsFrom(from[1], from[2],
                    Abs(to[1] - from[1]) - Abs(to[2] - from[2]), from, to)

RECURSIVE LineOfSightFrom(_, _, _, _, _, _)
LineOfSightFrom(x, y, err, from, to, grid) ==
  IF x = to[1] /\ y = to[2] THEN TRUE
  ELSE IF (x # from[1] \/ y # from[2]) /\ grid[<<x, y>>] = "wall" THEN FALSE
  ELSE LET n == BresenhamStep(x, y, err, from, to)
       IN  LineOfSightFrom(n.x, n.y, n.err, from, to, grid)

\* getLineOfSight: the legacy center line test (still used by the enemy AI)
getLineOfSight(from, to, grid) ==
  LineOfSightFrom(from[1], from[2],
                  Abs(to[1] - from[1]) - Abs(to[2] - from[2]), from, to, grid)

\* getCorners / getCenter, in hundredths of a cell (offset 0.01)
getCorners(position) ==
  << <<100 * position[1] + 1,  100 * position[2] + 1>>,
     <<100 * position[1] + 99, 100 * position[2] + 1>>,
     <<100 * position[1] + 1,  100 * position[2] + 99>>,
     <<100 * position[1] + 99, 100 * position[2] + 99>> >>

getCenter(position) == <<100 * position[1] + 50, 100 * position[2] + 50>>

\* steps = ceil(distance * 8): the least n with (100 n)^2 >= 64 (dx^2 + dy^2)
RECURSIVE CeilSteps(_, _)
CeilSteps(n, d2) == IF 10000 * n * n >= 64 * d2 THEN n ELSE CeilSteps(n + 1, d2)

\* the cells of the steps+1 sample points of the segment; Math.round(v - 0.5)
\* and Math.floor(v) name the same cell
SampledCells(from, to, steps) ==
  LET cellAt(i) == << (from[1] * steps + (to[1] - from[1]) * i) \div (100 * steps),
                      (from[2] * steps + (to[2] - from[2]) * i) \div (100 * steps) >>
  IN  {c \in {cellAt(i) : i \in 0..steps} : InGrid(c[1], c[2])}

\* traceLineFractional: with steps = 0 the parameter t is NaN and no cell is
\* collected
traceLineFractional(from, to) ==
  LET dx == to[1] - from[1]
      dy == to[2] - from[2]
      steps == CeilSteps(0, dx * dx + dy * dy)
  IN  IF steps = 0 THEN {} ELSE SampledCells(from, to, steps)

FloorCell(p) == <<p[1] \div 100, p[2] \div 100>>

isLineClear(from, to, grid) ==
  \A cell \in traceLineFractional(from, to) :
      cell = FloorCell(from) \/ cell = FloorCell(to) \/ grid[cell] # "wall"

\* hasLineOfSight: any corner of `from` sees any corner of `to`
hasLineOfSight(from, to, grid) ==
  \E i \in 1..4 : \E j \in 1..4 :
      isLineClear(getCorners(from)[i], getCorners(to)[j], grid)

\* The walls never move, so the answer of hasLineOfSight for a pair of cells
\* never changes: SightLines holds it for every pair, InSight looks it up.
SightLines ==
  [from \in Cells |-> {to \in Cells : hasLineOfSight(from, to, initializeGrid)}]

InSight(from, to) == to \in SightLines[from]


(***************************************************************************)
(* Cover resolver (gridUtils)                                              *)
(***************************************************************************)
NoCover == [type |-> "none", bonus |-> 0, source |-> "none"]

\* the cells strictly between the two ends of the center-to-center line
CoverPath(attacker, target) ==
  {cell \in traceLineFractional(getCenter(attacker), getCenter(target)) :
      cell # attacker /\ cell # target}

\* a crate or door on the path counts wherever the two units stand
TerrainCoverAlways(attacker, target, cell, grid) ==
  grid[cell] \in {"crate", "door"}

\* a crate or door on the path counts unless the attacker is adjacent to it
\* and the target is not
TerrainCoverApplies(attacker, target, cell, grid) ==
  /\ grid[cell] \in {"crate", "door"}
  /\ ~(calculateDistance(attacker, cell) = 1 /\ calculateDistance(target, cell) # 1)

\* a resolver that adds the sources up instead of keeping the highest
getCoverAdditive(attacker, target, grid, living) ==
  LET path == CoverPath(attacker, target)
      wallOnPath == \E cell \in path : grid[cell] = "wall"
      terrainOnPath == \E cell \in path : TerrainCoverApplies(attacker, target, cell, grid)
      creatureOnPath == \E cell \in path : cell \in living
      bonus == (IF wallOnPath THEN 4 ELSE 0) + (IF terrainOnPath THEN 2 ELSE 0)
                 + (IF creatureOnPath THEN 1 ELSE 0)
  IN  IF bonus = 0 THEN NoCover
      ELSE [type |-> IF wallOnPath THEN "greater"
                     ELSE IF terrainOnPath THEN "standard" ELSE "lesser",
            bonus |-> bonus,
            source |-> IF wallOnPath \/ terrainOnPath THEN "terrain" ELSE "creature"]

\* getCover: `living` is the set of cells holding a unit with hp > 0
getCover(attacker, target, grid, living) ==
  LET path == CoverPath(attacker, target)
      wallOnPath == \E cell \in path : grid[cell] = "wall"
      terrainOnPath == \E cell \in path : TerrainCoverApplies(attacker, target, cell, grid)
      creatureOnPath == \E cell \in path : cell \in living
  IN  IF wallOnPath THEN [type |-> "greater", bonus |-> 4, source |-> "terrain"]
      ELSE IF terrainOnPath THEN [type |-> "standard", bonus |-> 2, source |-> "terrain"]
      ELSE IF creatureOnPath THEN [type |-> "lesser", bonus |-> 1, source |-> "creature"]
      ELSE NoCover

HasEffect(effects, t) == \E i \in DOMAIN effects : effects[i].type = t

\* statusEffects.find(e => e.type === t).value: the first instance counts
EffectValue(effects, t) ==
  LET i == CHOOSE k \in DOMAIN effects :
              effects[k].type = t /\ \A j \in 1..(k - 1) : effects[j].type # t
  IN  effects[i].value

\* getCoverWithEffects: the take-cover upgrade of the target
getCoverWithEffects(attacker, target, grid, living, targetEffects) ==
  LET baseCover == getCover(attacker, target, grid, living)
  IN  IF HasEffect(targetEffects, "takingCoverEnhanced")
      THEN IF baseCover.type = "standard"
             THEN [type |-> "greater", bonus |-> 4, source |-> "action"]
           ELSE IF baseCover.type \in {"lesser", "none"}
             THEN [type |-> "standard", bonus |-> 2, source |-> "action"]
           ELSE baseCover
      ELSE baseCover

\* getCoverInfo (deprecated, still used by the line attack): Bresenham trace
RECURSIVE CoverPenaltyFrom(_, _, _, _, _, _)
CoverPenaltyFrom(x, y, err, from, to, grid) ==
  IF x = to[1] /\ y = to[2] THEN 0
  ELSE LET n == BresenhamStep(x, y, err, from, to)
           c == <<n.x, n.y>>
           here == IF c # from /\ c # to
                   THEN IF grid[c] = "crate" THEN 2
                        ELSE IF grid[c] = "wall" THEN 4 ELSE 0
                   ELSE 0
       IN  Max(here, CoverPenaltyFrom(n.x, n.y, n.err, from, to, grid))

getAdjacentCoverBonus(target, attacker, grid) ==
  LET dirX == Sign(attacker[1] - target[1])
      dirY == Sign(attacker[2] - target[2])
      coverPositions == { <<target[1] - dirX, target[2]>>,
                          <<target[1], target[2] - dirY>>,
                          <<target[1] - dirX, target[2] - dirY>> }
      inside == {p \in coverPositions : InGrid(p[1], p[2])}
  IN  IF \E p \in inside : grid[p] = "wall" THEN 2
      ELSE IF \E p \in inside : grid[p] = "crate" THEN 1
      ELSE 0

getCoverPenalty(from, to, grid) ==
  LET traced == CoverPenaltyFrom(from[1], from[2],
                    Abs(to[1] - from[1]) - Abs(to[2] - from[2]), from, to, grid)
      maxCoverPenalty == Max(traced, getAdjacentCoverBonus(to, from, grid))
  IN  IF maxCoverPenalty >= 4 THEN 4
      ELSE IF maxCoverPenalty >= 2 THEN 2
      ELSE 0

(***************************************************************************)
(* Movement range (gridUtils)                                              *)
(***************************************************************************)
\* The breadth-first search of getMovementRange: a FIFO queue of
\* (cell, distance) entries, a cell being expanded with the distance of the
\* entry that is dequeued first.  An entry pushed for a cell that is already
\* queued or processed is skipped when it is dequeued, because the earlier
\* entry of the cell leaves the queue before it; such an entry is not queued
\* here, and `known` is the set of cells queued so far.  `occupied` is the
\* set of cells holding a living unit.
Expand(pos, distance, speed, grid, occupied, known) ==
  LET cand == [i \in 1..8 |->
                 LET c == <<pos[1] + Directions[i][1], pos[2] + Directions[i][2]>>
                 IN  [pos |-> c,
                      distance |-> IF InGrid(c[1], c[2]) /\ grid[c] = "crate"
                                   THEN distance + 2 ELSE distance + 1]]
      ok(e) == /\ InGrid(e.pos[1], e.pos[2])
               /\ grid[e.pos] # "wall"
               /\ e.pos \notin occupied
               /\ e.distance <= speed
               /\ e.pos \notin known
  IN  IF distance >= speed THEN << >> ELSE SelectSeq(cand, ok)

CellsOf(entries) == {entries[i].pos : i \in DOMAIN entries}

RECURSIVE MovementSearch(_, _, _, _, _, _, _), MovementVisit(_, _, _, _, _, _, _, _, _)
MovementSearch(queue, known, validMoves, start, speed, grid, occupied) ==
  IF queue = << >> THEN validMoves
  ELSE MovementVisit(Tail(queue), queue[1].pos,
                     Expand(queue[1].pos, queue[1].distance, speed, grid, occupied, known),
                     known, validMoves, start, speed, grid, occupied)

MovementVisit(rest, pos, pushed, known, validMoves, start, speed, grid, occupied) ==
  MovementSearch(rest \o pushed, known \cup CellsOf(pushed),
                 IF pos # start THEN Append(validMoves, pos) ELSE validMoves,
                 start, speed, grid, occupied)

getMovementRange(start, speed, grid, occupied) ==
  MovementSearch(<< [pos |-> start, distance |-> 0] >>, {start}, << >>,
                 start, speed, grid, occupied)

(***************************************************************************)
(* Dice utilities (diceUtils).  A dice string is a sequence of characters. *)
(***************************************************************************)
DigitChars == <<"0","1","2","3","4","5","6","7","8","9">>
IsDigit(c) == \E i \in 1..10 : DigitChars[i] = c
DigitValue(c) == (CHOOSE i \in 1..10 : DigitChars[i] = c) - 1

IsNumber(s) == Len(s) >= 1 /\ \A i \in DOMAIN s : IsDigit(s[i])

RECURSIVE parseInt(_)
parseInt(s) ==
  IF s = << >> THEN 0
  ELSE 10 * parseInt(SubSeq(s, 1, Len(s) - 1)) + DigitValue(s[Len(s)])

\* /^(\d+)d(\d+)(?:\+(\d+))?$/i
DiceMatch(diceString) ==
  LET ds == {i \in DOMAIN diceString : diceString[i] \in {"d", "D"}}
      ps == {i \in DOMAIN diceString : diceString[i] = "+"}
      d == CHOOSE i \in ds : TRUE
      p == CHOOSE i \in ps : TRUE
      n == Len(diceString)
  IN  IF Cardinality(ds) # 1 \/ Cardinality(ps) > 1 THEN [ok |-> FALSE]
      ELSE IF ps = {}
        THEN IF IsNumber(SubSeq(diceString, 1, d - 1)) /\ IsNumber(SubSeq(diceString, d + 1, n))
               THEN [ok |-> TRUE, count |-> parseInt(SubSeq(diceString, 1, d - 1)),
                     sides |-> parseInt(SubSeq(diceString, d + 1, n)), bonus |-> 0]
               ELSE [ok |-> FALSE]
        ELSE IF /\ d < p
                /\ IsNumber(SubSeq(diceString, 1, d - 1))
                /\ IsNumber(SubSeq(diceString, d + 1, p - 1))
                /\ IsNumber(SubSeq(diceString, p + 1, n))
               THEN [ok |-> TRUE, count |-> parseInt(SubSeq(diceString, 1, d - 1)),
                     sides |-> parseInt(SubSeq(diceString, d + 1, p - 1)),
                     bonus |-> parseInt(SubSeq(diceString, p + 1, n))]
               ELSE [ok |-> FALSE]

RECURSIVE SumSeq(_)
SumSeq(s) == IF s = << >> THEN 0 ELSE s[1] + SumSeq(Tail(s))

\* rollDice(sides, count): every outcome the random source can produce; a die
\* without sides comes up floor(0) + 1
rollDice(sides, count) == [1..count -> 1..Max(sides, 1)]

\* the outcomes of the dice rolled by rollDamage(diceString); no die is rolled
\* for a string that does not match
DamageRolls(diceString) ==
  LET m == DiceMatch(diceString)
  IN  IF m.ok THEN rollDice(m.sides, m.count) ELSE { <<1>> }

\* rollDamage(diceString) when the dice come up as `rolls`
rollDamage(diceString, rolls) ==
  LET m == DiceMatch(diceString)
  IN  IF ~m.ok THEN [rolls |-> <<1>>, bonus |-> 0, total |-> 1]
      ELSE [rolls |-> rolls, bonus |-> m.bonus, total |-> SumSeq(rolls) + m.bonus]

\* the totals rollDamage(diceString) can return
DamageTotals(diceString) ==
  {rollDamage(diceString, rolls).total : rolls \in DamageRolls(diceString)}

rollD20 == 1..20

isNatural20(roll) == roll = 20

isCriticalHit(roll, total, targetAC) == isNatural20(roll) \/ total >= targetAC + 10


(***************************************************************************)
(* Unit statistics (constants) and unit creation (unitUtils)               *)
(***************************************************************************)
\* the value of an optional number that is not set (weaponRange, ammoCapacity,
\* currentAmmo, maxAmmo)
undefined == -1

DWARF_STATS ==
  [voidguard |->
     [hp |-> 10, ac |-> 16, speed |-> 2, attackBonus |-> 3,
      damage |-> <<"1","d","8">>, weaponRange |-> undefined, abilityCost |-> 1],
   asteroidMiner |->
     [hp |-> 6, ac |-> 14, speed |-> 4, attackBonus |-> 4,
      damage |-> <<"1","d","6">>, weaponRange |-> 3, abilityCost |-> 2],
   brewmasterEngineer |->
     [hp |-> 8, ac |-> 15, speed |-> 3, attackBonus |-> 2,
      damage |-> <<"1","d","4","+","1">>, weaponRange |-> 4, abilityCost |-> 2],
   starRanger |->
     [hp |-> 7, ac |-> 14, speed |-> 3, attackBonus |-> 3,
      damage |-> <<"1","d","6","+","1">>, weaponRange |-> 4, abilityCost |-> 2]]

ENEMY_STATS ==
  [goblinScavenger |->
     [hp |-> 3, ac |-> 12, speed |-> 3, attackBonus |-> 1,
      damage |-> <<"1","d","4">>, weaponRange |-> 3],
   voidHound |->
     [hp |-> 5, ac |-> 14, speed |-> 5, attackBonus |-> 2,
      damage |-> <<"1","d","6">>, weaponRange |-> undefined],
   corruptedMiningDrone |->
     [hp |-> 8, ac |-> 11, speed |-> 2, attackBonus |-> 2,
      damage |-> <<"1","d","8">>, weaponRange |-> 4]]

DwarfClasses == {"voidguard", "asteroidMiner", "brewmasterEngineer", "starRanger"}

Stats(class) == IF class \in DwarfClasses THEN DWARF_STATS[class] ELSE ENEMY_STATS[class]

\* stats.ammoCapacity and stats.special belong to the weapon generation of the
\* constants, which is not among the sources: the capacities are those of the
\* design documents (Mining Laser 3 shots, Mag-Rifle 6 shots, Mining Beam 1
\* shot), the Chem-Launcher splashes and the Mining Beam is a line weapon.
ammoCapacity(class) ==
  IF class = "asteroidMiner" THEN 3
  ELSE IF class = "starRanger" THEN 6
  ELSE IF class = "brewmasterEngineer" THEN 4
  ELSE IF class = "corruptedMiningDrone" THEN 1
  ELSE undefined

special(class) ==
  IF class = "brewmasterEngineer" THEN {"splash"}
  ELSE IF class = "corruptedMiningDrone" THEN {"line"}
  ELSE {}

\* createUnit: the mutable fields of a unit; maxHp, ac, speed, attackBonus,
\* damage, rangeWeapon and maxAmmo are copied from the stats of the class and
\* never written again, so they are read from the class.
createUnit(type, unitClass, position) ==
  [type |-> type, class |-> unitClass, position |-> position,
   hp |-> Stats(unitClass).hp,
   currentAmmo |-> ammoCapacity(unitClass),
   actionsRemaining |-> 0, strikesThisTurn |-> 0, isActive |-> FALSE,
   statusEffects |-> << >>]

maxHp(u) == Stats(u.class).hp
ac(u) == Stats(u.class).ac
speed(u) == Stats(u.class).speed
attackBonusOf(u) == Stats(u.class).attackBonus
damageOf(u) == Stats(u.class).damage
rangeWeapon(u) == Stats(u.class).weaponRange
maxAmmo(u) == ammoCapacity(u.class)

\* `attacker.rangeWeapon && ...`: a range that is set and not 0
HasRangeWeapon(u) == rangeWeapon(u) # undefined /\ rangeWeapon(u) # 0
\* `rangeWeapon || 1`
WeaponRange(u) == IF HasRangeWeapon(u) THEN rangeWeapon(u) ELSE 1

(***************************************************************************)
(* Bounds of the exploration                                               *)
(***************************************************************************)
\* the controller of the full command set plays MaxTurns turns
MaxTurns == 1
\* the controller of the duels plays DuelTurns turns
DuelTurns == 2
\* an effect is put only on a unit carrying fewer than MaxEffects effects
MaxEffects == 1

\* the cells the controller picks as destinations of moves and steps
Arena == { <<3,4>>, <<3,2>>, <<2,4>> }

\* the cell the Ore Sense ability is aimed at
SenseTargets == { <<3,2>> }

\* The encounters explored: rosters of units at spawn cells of the layout
\* (the dwarf start cells and the G, g and W cells).
Encounters ==
  { << <<"dwarf", "voidguard", <<1,4>> >>, <<"enemy", "voidHound", <<4,4>> >> >>,
    << <<"dwarf", "brewmasterEngineer", <<1,5>> >>, <<"enemy", "voidHound", <<4,4>> >> >>,
    << <<"dwarf", "asteroidMiner", <<2,4>> >>, <<"enemy", "corruptedMiningDrone", <<6,2>> >> >> }

(***************************************************************************)
(* State of the store                                                      *)
(***************************************************************************)
VARIABLES units, currentUnitId, turnOrder, round, phase,
          selectedAction, validMoves, validTargets, revealedCells, combatLog

vars == <<units, currentUnitId, turnOrder, round, phase,
          selectedAction, validMoves, validTargets, revealedCells, combatLog>>

null == "null"

UnitIds == DOMAIN units

\* the initiative orders of n units
Orders(n) == {f \in [1..n -> 1..n] : \A i, j \in 1..n : i # j => f[i] # f[j]}

\* the variables of the controller (see below)
VARIABLES turnsEnded, call

\* the empty log
NoEntries == << >>

\* No handler reads the combat log.  In the log encounter combatLog is the
\* log of the store, and a command that writes appends to it.  Everywhere
\* else combatLog holds its latest batch only: the entries appended by the
\* most recent command that wrote to the log; the batches of earlier commands
\* are not kept.
Kept(log) == IF call.fn = "log" THEN log ELSE NoEntries

\* variant of addLogEntry: the new entry takes the place of the log
addLogEntryAlone(log, type, r) == << [round |-> r, type |-> type] >>
\* addLogEntry: append an entry tagged with the round counter
addLogEntry(log, type, r) == Append(log, [round |-> r, type |-> type])

\* initializeUnits with the roster of an encounter
initializeUnits(roster) ==
  [i \in 1..Len(roster) |-> createUnit(roster[i][1], roster[i][2], roster[i][3])]

\* initializeGame for a roster and the initiative order rolled for it
initializeGame(roster, order) ==
  /\ units = [initializeUnits(roster) EXCEPT
                ![order[1]].isActive = TRUE,
                ![order[1]].actionsRemaining = ACTIONS_PER_TURN]
  /\ turnOrder = order
  /\ currentUnitId = order[1]
  /\ round = 1
  /\ phase = "combat"
  /\ selectedAction = null
  /\ validMoves = << >>
  /\ validTargets = << >>
  /\ revealedCells = {}
  /\ combatLog = addLogEntry(NoEntries, "system", 1)

\* any initiative order can be rolled
Init ==
  \E roster \in Encounters :
    \E order \in Orders(Len(roster)) : initializeGame(roster, order)

\* cells holding a unit with hp > 0
LivingCells(us) == {us[i].position : i \in {j \in DOMAIN us : us[j].hp > 0}}

\* the ids of a set, as the array a filter over units yields (in units order)
RECURSIVE IdSeq(_, _)
IdSeq(ids, n) ==
  IF n = 0 THEN << >>
  ELSE IdSeq(ids, n - 1) \o (IF n \in ids THEN <<n>> ELSE << >>)

FilterUnits(ids) == IdSeq(ids, Len(units))


RECURSIVE addLogEntries(_, _, _)
addLogEntries(log, types, r) ==
  IF types = << >> THEN log
  ELSE addLogEntries(addLogEntry(log, types[1], r), Tail(types), r)

\* units.find(u => u.position is pos && u.hp > 0 && ...): the first such id, 0 if none
FirstLivingAt(us, pos, excluded) ==
  LET at == {i \in DOMAIN us : us[i].position = pos /\ us[i].hp > 0 /\ i # excluded}
  IN  IF at = {} THEN 0 ELSE CHOOSE i \in at : \A j \in at : i <= j

RemoveEffects(effects, types) ==
  LET keep(e) == e.type \notin types
  IN  SelectSeq(effects, keep)

PushEffect(effects, t, v, d) == Append(effects, [type |-> t, value |-> v, duration |-> d])

\* variant of TakeDamage: the subtraction without the floor
TakeDamageUnclamped(hp, damage) == hp - damage

\* `Math.max(0, hp - damage)`: the hp left by a hit
TakeDamage(hp, damage) == Max(0, hp - damage)

\* `Math.min(maxHp, hp + heal)`: the hp of a unit after a heal
Healed(u, heal) == Min(maxHp(u), u.hp + heal)

\* the victory/defeat check made at the end of a strike
CheckVictory(us, ph) ==
  IF \A i \in DOMAIN us : us[i].type = "enemy" => us[i].hp <= 0 THEN "victory"
  ELSE IF \A i \in DOMAIN us : us[i].type = "dwarf" => us[i].hp <= 0 THEN "defeat"
  ELSE ph

(***************************************************************************)
(* selectAction                                                            *)
(***************************************************************************)
StrikeTargets(cur) ==
  LET u == units[cur]
      enemies == IF u.type = "turret"
                 THEN {i \in UnitIds : units[i].type = "enemy" /\ units[i].hp > 0}
                 ELSE {i \in UnitIds : units[i].type # u.type /\ units[i].type # "turret"
                                        /\ units[i].hp > 0}
  IN  {i \in enemies :
         /\ calculateDistance(u.position, units[i].position) <= WeaponRange(u)
         /\ InSight(u.position, units[i].position)}

AdjacentAllies(cur, woundedOnly) ==
  {i \in UnitIds : /\ units[i].type = units[cur].type
                   /\ i # cur
                   /\ units[i].hp > 0
                   /\ (woundedOnly => units[i].hp < maxHp(units[i]))
                   /\ calculateDistance(units[cur].position, units[i].position) = 1}

StepTargets(cur) ==
  LET free(pos) == /\ initializeGrid[pos] # "wall"
                   /\ \A i \in UnitIds : ~(units[i].position = pos /\ units[i].hp > 0)
  IN  SelectSeq(getAdjacentPositions(units[cur].position), free)

\* the cells within distance 4, row by row
RECURSIVE CellsWithin(_, _, _)
CellsWithin(pos, d, k) ==
  IF k = GRID_SIZE * GRID_SIZE THEN << >>
  ELSE LET c == <<k % GRID_SIZE, k \div GRID_SIZE>>
       IN  (IF calculateDistance(pos, c) <= d THEN <<c>> ELSE << >>)
           \o CellsWithin(pos, d, k + 1)

SelfTargeted ==
  {"aim", "defend", "dropProne", "raiseShield", "takeCover", "brace", "reload",
   "takeCoverEnhanced", "shieldWall", "gravitonSlam", "precisionDrilling"}

selectAction(action) ==
  LET cur == currentUnitId
      u == units[cur]
      idle == u.actionsRemaining <= 0
      moves ==
        IF idle THEN << >>
        ELSE IF action \in {"move", "stride"}
          THEN getMovementRange(u.position, speed(u), initializeGrid, LivingCells(units))
        ELSE IF action = "ability" /\ u.class = "asteroidMiner"
          THEN CellsWithin(u.position, 4, 0)
        ELSE IF action = "step" THEN StepTargets(cur)
        ELSE << >>
      targets ==
        IF idle THEN << >>
        ELSE IF action = "strike" THEN FilterUnits(StrikeTargets(cur))
        ELSE IF action = "ability" /\ u.class = "voidguard"
          THEN FilterUnits(AdjacentAllies(cur, FALSE))
        ELSE IF action = "ability" /\ u.class = "brewmasterEngineer"
          THEN FilterUnits(AdjacentAllies(cur, TRUE))
        ELSE IF action = "ability" /\ u.class = "starRanger"
          THEN FilterUnits({i \in StrikeTargets(cur) : units[i].type = "enemy"})
        ELSE IF action \in SelfTargeted THEN <<cur>>
        ELSE IF action = "combatBrew" THEN FilterUnits(AdjacentAllies(cur, FALSE))
        ELSE << >>
  IN  /\ selectedAction' = action
      /\ validMoves' = moves
      /\ validTargets' = targets
      /\ UNCHANGED <<units, currentUnitId, turnOrder, round, phase, revealedCells, combatLog>>

(***************************************************************************)
(* moveUnit and stepUnit                                                   *)
(***************************************************************************)
InSeq(x, s) == \E i \in DOMAIN s : s[i] = x

moveUnitAccepted(unitId, position) ==
  /\ units[unitId].actionsRemaining > 0
  /\ InSeq(position, validMoves)

moveUnit(unitId, position) ==
  IF moveUnitAccepted(unitId, position)
  THEN /\ units' = [units EXCEPT ![unitId].position = position,
                                 ![unitId].actionsRemaining = @ - 1]
       /\ selectedAction' = null
       /\ validMoves' = << >>
       /\ combatLog' = addLogEntry(Kept(combatLog), "move", round)
       /\ UNCHANGED <<currentUnitId, turnOrder, round, phase, validTargets, revealedCells>>
  ELSE UNCHANGED vars

stepUnitAccepted(unitId, position) ==
  /\ units[unitId].actionsRemaining > 0
  /\ calculateDistance(units[unitId].position, position) = 1
  /\ InSeq(position, validMoves)

stepUnit(unitId, position) ==
  IF stepUnitAccepted(unitId, position)
  THEN /\ units' = [units EXCEPT ![unitId].position = position,
                                 ![unitId].actionsRemaining = @ - 1,
                                 ![unitId].statusEffects = RemoveEffects(@, {"prone"})]
       /\ selectedAction' = null
       /\ validMoves' = << >>
       /\ combatLog' = addLogEntry(Kept(combatLog), "move", round)
       /\ UNCHANGED <<currentUnitId, turnOrder, round, phase, validTargets, revealedCells>>
  ELSE UNCHANGED vars

(***************************************************************************)
(* endTurn                                                                 *)
(***************************************************************************)
\* turnOrder.indexOf(id), 0-based
IndexOf(order, id) == (CHOOSE i \in DOMAIN order : order[i] = id) - 1

\* the status effects of a unit after the round-end update
ExpireEffects(effects) ==
  LET aged == [i \in DOMAIN effects |-> [effects[i] EXCEPT !.duration = @ - 1]]
      alive(e) == e.duration > 0
  IN  SelectSeq(aged, alive)

\* the loop that skips dead units: the index reached after at most
\* turnOrder.length advances
RECURSIVE SkipDead(_, _, _)
SkipDead(us, index, attempts) ==
  IF us[turnOrder[index + 1]].hp <= 0 /\ attempts < Len(turnOrder)
  THEN SkipDead(us, (index + 1) % Len(turnOrder), attempts + 1)
  ELSE index

RoundCompletes == (IndexOf(turnOrder, currentUnitId) + 1) % Len(turnOrder) = 0

\* a round end that also clears the strike counter
AtRoundEndResetting(u) ==
  [u EXCEPT !.statusEffects = ExpireEffects(@), !.strikesThisTurn = 0]
\* what the completion of a round does to a unit: its effects age and expire
AtRoundEnd(u) == [u EXCEPT !.statusEffects = ExpireEffects(@)]

endTurn ==
  LET currentIndex == IndexOf(turnOrder, currentUnitId)
      nextIndex == (currentIndex + 1) % Len(turnOrder)
      expired == IF nextIndex = 0
                 THEN [i \in DOMAIN units |-> AtRoundEnd(units[i])]
                 ELSE units
      deactivated == [expired EXCEPT ![currentUnitId].isActive = FALSE]
      nextUnitId == turnOrder[SkipDead(deactivated, nextIndex, 0) + 1]
      found == deactivated[nextUnitId].hp > 0
  IN  /\ round' = IF nextIndex = 0 THEN round + 1 ELSE round
      /\ units' = IF found
                  THEN [deactivated EXCEPT ![nextUnitId].isActive = TRUE,
                                           ![nextUnitId].actionsRemaining = ACTIONS_PER_TURN,
                                           ![nextUnitId].strikesThisTurn = 0]
                  ELSE deactivated
      /\ currentUnitId' = IF found THEN nextUnitId ELSE currentUnitId
      /\ selectedAction' = null
      /\ validMoves' = << >>
      /\ validTargets' = << >>
      /\ UNCHANGED <<turnOrder, phase, revealedCells, combatLog>>


(***************************************************************************)
(* attackUnit and executeLineAttack                                        *)
(***************************************************************************)
\* a schedule read no further than its second entry
mapPenaltyFlat(u) == MAP_PENALTIES[Min(u.strikesThisTurn, 1) + 1]
\* `MAP_PENALTIES[Math.min(attacker.strikesThisTurn, MAP_PENALTIES.length - 1)]`
mapPenaltyOf(u) == MAP_PENALTIES[Min(u.strikesThisTurn, Len(MAP_PENALTIES) - 1) + 1]

EffectBonus(effects, t) == IF HasEffect(effects, t) THEN EffectValue(effects, t) ELSE 0

\* what a single-target strike fixes before the dice are rolled
StrikeSetup(us, attackerId, targetId) ==
  LET attacker == us[attackerId]
      target == us[targetId]
      coverInfo == getCoverWithEffects(attacker.position, target.position, initializeGrid,
                                       LivingCells(us), target.statusEffects)
      coverBonus == IF HasEffect(attacker.statusEffects, "precisionDrilling")
                    THEN 0 ELSE coverInfo.bonus
  IN  [coverBonus |-> coverBonus,
       mapPenalty |-> mapPenaltyOf(attacker),
       effectiveAC |-> ac(target) + coverBonus
                       + EffectBonus(target.statusEffects, "shieldWall")
                       + EffectBonus(target.statusEffects, "defending")
                       + EffectBonus(target.statusEffects, "shieldRaised"),
       attackBonus |-> attackBonusOf(attacker)
                       + EffectBonus(attacker.statusEffects, "aimed"),
       damage |-> damageOf(attacker),
       combatBrewDamage |-> EffectBonus(attacker.statusEffects, "combatBrewDamage")]

\* the resolution of the strike for a d20 result `roll` and a damage roll that
\* totals `damageTotal`
StrikeResult(setup, roll, damageTotal) ==
  LET total == roll + setup.attackBonus - Abs(setup.mapPenalty)
      hit == total >= setup.effectiveAC
      critical == isCriticalHit(roll, total, setup.effectiveAC)
      rolled == damageTotal + setup.combatBrewDamage
  IN  [hit |-> hit, critical |-> critical, total |-> total,
       damage |-> IF ~hit THEN 0 ELSE IF critical THEN 2 * rolled ELSE rolled]

StrikeOutcome(us, attackerId, targetId, roll, rolls) ==
  StrikeResult(StrikeSetup(us, attackerId, targetId), roll,
               rollDamage(damageOf(us[attackerId]), rolls).total)

\* the hit flag and the damage of every outcome of the dice
StrikeEffects(us, attackerId, targetId) ==
  LET setup == StrikeSetup(us, attackerId, targetId)
      effect(res) == [hit |-> res.hit, damage |-> res.damage]
  IN  {effect(StrikeResult(setup, roll, damageTotal)) :
         roll \in rollD20, damageTotal \in DamageTotals(setup.damage)}

\* variant of ConsumedByStrike: the drilling outlasts the strike
ConsumedButDrilling == {"aimed", "combatBrewDamage"}

\* the effects a strike consumes
ConsumedByStrike == {"aimed", "precisionDrilling", "combatBrewDamage"}

\* variant of AfterStrike: the strike is not charged to the budget
AfterStrikeFree(u) ==
  [u EXCEPT !.strikesThisTurn = @ + 1,
            !.currentAmmo = IF HasRangeWeapon(u) /\ @ # undefined THEN Max(0, @ - 1) ELSE @,
            !.statusEffects = RemoveEffects(@, ConsumedByStrike)]

\* the attacker after a strike: action, strike counter, ammo, consumed effects
AfterStrike(u) ==
  [u EXCEPT !.actionsRemaining = @ - 1,
            !.strikesThisTurn = @ + 1,
            !.currentAmmo = IF HasRangeWeapon(u) /\ @ # undefined THEN Max(0, @ - 1) ELSE @,
            !.statusEffects = RemoveEffects(@, ConsumedByStrike)]

\* variant of SplashedUnits: the splash spares the side of the attacker
SplashedOtherSide(us, targetId) ==
  LET cells == getAdjacentPositions(us[targetId].position)
      hitAt(pos) == /\ FirstLivingAt(us, pos, targetId) # 0
                    /\ us[FirstLivingAt(us, pos, targetId)].type = us[targetId].type
      hitCells == SelectSeq(cells, hitAt)
  IN  [i \in 1..Len(hitCells) |-> FirstLivingAt(us, hitCells[i], targetId)]

\* the units hit by the splash around the primary target, in the order of the
\* adjacent cells
SplashedUnits(us, targetId) ==
  LET cells == getAdjacentPositions(us[targetId].position)
      hitAt(pos) == FirstLivingAt(us, pos, targetId) # 0
      hitCells == SelectSeq(cells, hitAt)
  IN  [i \in 1..Len(hitCells) |-> FirstLivingAt(us, hitCells[i], targetId)]

ApplySplash(us, targetId) ==
  LET splashed == Range(SplashedUnits(us, targetId))
  IN  [i \in DOMAIN us |->
         IF i \in splashed THEN [us[i] EXCEPT !.hp = TakeDamage(@, 1)] ELSE us[i]]

\* variant of OutOfAmmo: the magazine is not looked at
OutOfAmmoIgnored(u) == FALSE

\* `attacker.rangeWeapon && attacker.currentAmmo !== undefined && attacker.currentAmmo <= 0`
OutOfAmmo(u) == HasRangeWeapon(u) /\ u.currentAmmo # undefined /\ u.currentAmmo <= 0

isLineAttack(u) == "line" \in special(u.class)

\* what the roll against one unit of a line attack fixes before the dice
LineSetup(us, attackerId, targetId) ==
  LET attacker == us[attackerId]
      target == us[targetId]
  IN  [coverPenalty |-> getCoverPenalty(attacker.position, target.position, initializeGrid),
       mapPenalty |-> mapPenaltyOf(attacker),
       effectiveAC |-> ac(target)
                       + EffectBonus(target.statusEffects, "shieldWall")
                       + EffectBonus(target.statusEffects, "defending"),
       attackBonus |-> attackBonusOf(attacker)
                       + EffectBonus(attacker.statusEffects, "aimed"),
       damage |-> damageOf(attacker)]

\* the resolution of one unit of a line attack
LineResult(setup, roll, rolled) ==
  LET total == roll + setup.attackBonus - setup.coverPenalty - Abs(setup.mapPenalty)
      hit == total >= setup.effectiveAC
      critical == isCriticalHit(roll, total, setup.effectiveAC)
  IN  [hit |-> hit, critical |-> critical, total |-> total,
       damage |-> IF ~hit THEN 0 ELSE IF critical THEN 2 * rolled ELSE rolled]

LineOutcome(us, attackerId, targetId, roll, rolls) ==
  LineResult(LineSetup(us, attackerId, targetId), roll,
             rollDamage(damageOf(us[attackerId]), rolls).total)

\* a line attack that spares the units of the attacker's side
unitsInLineFoes(us, attackerId, targetId) ==
  LET linePositions == getLinePositions(us[attackerId].position, us[targetId].position)
  IN  {i \in DOMAIN us : /\ us[i].hp > 0
                         /\ i # attackerId
                         /\ us[i].type # us[attackerId].type
                         /\ InSeq(us[i].position, linePositions)}

unitsInLine(us, attackerId, targetId) ==
  LET linePositions == getLinePositions(us[attackerId].position, us[targetId].position)
  IN  {i \in DOMAIN us : us[i].hp > 0 /\ i # attackerId /\ InSeq(us[i].position, linePositions)}

\* the damage a unit of the line can take over all dice results (0: a miss)
DamagesOf(setup) ==
  {LineResult(setup, roll, rolled).damage :
      roll \in rollD20, rolled \in DamageTotals(setup.damage)}

LineDamages(us, attackerId, targetId) == DamagesOf(LineSetup(us, attackerId, targetId))

executeLineAttack(attackerId, targetId) ==
  IF units[attackerId].actionsRemaining <= 0 THEN UNCHANGED vars
  ELSE
    LET inLine == unitsInLine(units, attackerId, targetId)
    IN  \E dmg \in [inLine -> UNION {LineDamages(units, attackerId, i) : i \in inLine}] :
          /\ \A i \in inLine : dmg[i] \in LineDamages(units, attackerId, i)
          /\ LET damaged == [i \in DOMAIN units |->
                               IF i \in inLine /\ dmg[i] > 0
                               THEN [units[i] EXCEPT !.hp = TakeDamage(@, dmg[i])]
                               ELSE units[i]]
                 after == [damaged EXCEPT ![attackerId] = AfterStrike(@)]
                 order == FilterUnits(inLine)
                 entries == <<"damage">> \o
                            [k \in 1..Len(order) |->
                               IF dmg[order[k]] > 0 THEN "damage" ELSE "miss"]
             IN  /\ units' = after
                 /\ phase' = CheckVictory(after, phase)
                 /\ selectedAction' = null
                 /\ validTargets' = << >>
                 /\ combatLog' = addLogEntries(Kept(combatLog), entries, round)
                 /\ UNCHANGED <<currentUnitId, turnOrder, round, validMoves, revealedCells>>

\* the strike is resolved (neither returned silently nor refused for sight)
attackUnitAccepted(attackerId, targetId) ==
  /\ units[attackerId].actionsRemaining > 0
  /\ ~OutOfAmmo(units[attackerId])
  /\ \/ isLineAttack(units[attackerId])
     \/ InSight(units[attackerId].position, units[targetId].position)

attackUnit(attackerId, targetId) ==
  LET attacker == units[attackerId]
      target == units[targetId]
  IN  IF attacker.actionsRemaining <= 0 \/ OutOfAmmo(attacker) THEN UNCHANGED vars
      ELSE IF isLineAttack(attacker) THEN executeLineAttack(attackerId, targetId)
      ELSE IF ~InSight(attacker.position, target.position)
        THEN /\ combatLog' = addLogEntry(Kept(combatLog), "system", round)
             /\ UNCHANGED <<units, currentUnitId, turnOrder, round, phase,
                            selectedAction, validMoves, validTargets, revealedCells>>
      ELSE
        \E res \in StrikeEffects(units, attackerId, targetId) :
          LET damaged == [units EXCEPT ![targetId].hp =
                                          IF res.hit THEN TakeDamage(@, res.damage) ELSE @]
              struck == [damaged EXCEPT ![attackerId] = AfterStrike(@)]
              splash == res.hit /\ "splash" \in special(attacker.class)
              entries == IF ~res.hit THEN <<"miss">>
                         ELSE IF splash
                           THEN <<"damage">> \o
                                [k \in 1..Len(SplashedUnits(struck, targetId)) |-> "damage"]
                         ELSE <<"damage">>
          IN  /\ units' = IF splash THEN ApplySplash(struck, targetId) ELSE struck
              /\ phase' = CheckVictory(struck, phase)
              /\ selectedAction' = null
              /\ validTargets' = << >>
              /\ combatLog' = addLogEntries(Kept(combatLog), entries, round)
              /\ UNCHANGED <<currentUnitId, turnOrder, round, validMoves, revealedCells>>


(***************************************************************************)
(* Basic actions: stances and reload                                       *)
(***************************************************************************)
\* the common shape of the stance handlers: push the effect, pay one action,
\* clear the selection, log the action
TakeStance(unitId, t, v, d) ==
  /\ units' = [units EXCEPT ![unitId].statusEffects = PushEffect(@, t, v, d),
                            ![unitId].actionsRemaining = @ - 1]
  /\ selectedAction' = null
  /\ validTargets' = << >>
  /\ combatLog' = addLogEntry(Kept(combatLog), "ability", round)
  /\ UNCHANGED <<currentUnitId, turnOrder, round, phase, validMoves, revealedCells>>

\* variant of RefuseWithLog: the refused command is charged all the same
RefuseAndCharge ==
  /\ units' = [units EXCEPT ![currentUnitId].actionsRemaining = @ - 1]
  /\ combatLog' = addLogEntry(Kept(combatLog), "system", round)
  /\ UNCHANGED <<currentUnitId, turnOrder, round, phase,
                 selectedAction, validMoves, validTargets, revealedCells>>

\* a refusal that only writes a 'system' entry
RefuseWithLog ==
  /\ combatLog' = addLogEntry(Kept(combatLog), "system", round)
  /\ UNCHANGED <<units, currentUnitId, turnOrder, round, phase,
                 selectedAction, validMoves, validTargets, revealedCells>>

aimAction(unitId) ==
  IF units[unitId].actionsRemaining <= 0 THEN UNCHANGED vars
  ELSE TakeStance(unitId, "aimed", 2, 1)

defendAction(unitId) ==
  IF units[unitId].actionsRemaining <= 0 THEN UNCHANGED vars
  ELSE TakeStance(unitId, "defending", 2, 1)

dropProneAction(unitId) ==
  IF units[unitId].actionsRemaining <= 0 THEN UNCHANGED vars
  ELSE TakeStance(unitId, "prone", 1, -1)

raiseShieldAction(unitId) ==
  IF units[unitId].actionsRemaining <= 0 THEN UNCHANGED vars
  ELSE IF units[unitId].class # "voidguard" THEN RefuseWithLog
  ELSE TakeStance(unitId, "shieldRaised", 2, 1)

AdjacentToCover(pos) ==
  \E k \in 1..Len(getAdjacentPositions(pos)) :
    initializeGrid[getAdjacentPositions(pos)[k]] \in {"crate", "wall"}

takeCoverAction(unitId) ==
  IF units[unitId].actionsRemaining <= 0 THEN UNCHANGED vars
  ELSE IF ~AdjacentToCover(units[unitId].position) THEN RefuseWithLog
  ELSE TakeStance(unitId, "takingCover", 1, 1)

braceAction(unitId) ==
  IF units[unitId].actionsRemaining <= 0 THEN UNCHANGED vars
  ELSE TakeStance(unitId, "braced", 1, 1)

takeCoverEnhancedAction(unitId) ==
  IF units[unitId].actionsRemaining <= 0 THEN UNCHANGED vars
  ELSE
    /\ units' = [units EXCEPT
                   ![unitId].statusEffects =
                      PushEffect(RemoveEffects(@, {"takingCoverEnhanced"}),
                                 "takingCoverEnhanced", 1, 1),
                   ![unitId].actionsRemaining = @ - 1]
    /\ selectedAction' = null
    /\ validTargets' = << >>
    /\ combatLog' = addLogEntry(Kept(combatLog), "ability", round)
    /\ UNCHANGED <<currentUnitId, turnOrder, round, phase, validMoves, revealedCells>>

\* `!unit.maxAmmo || unit.currentAmmo === undefined`
CannotReload(u) == maxAmmo(u) = undefined \/ maxAmmo(u) = 0 \/ u.currentAmmo = undefined

\* a reload that puts one round back instead of filling the magazine
ReloadedOneRound(u) == Min(maxAmmo(u), u.currentAmmo + 1)
\* `stateUnit.currentAmmo = stateUnit.maxAmmo`
Reloaded(u) == maxAmmo(u)

reloadAction(unitId) ==
  IF units[unitId].actionsRemaining <= 0 \/ CannotReload(units[unitId]) THEN UNCHANGED vars
  ELSE
    /\ units' = [units EXCEPT ![unitId].currentAmmo = Reloaded(units[unitId]),
                              ![unitId].actionsRemaining = @ - 1]
    /\ selectedAction' = null
    /\ validTargets' = << >>
    /\ combatLog' = addLogEntry(Kept(combatLog), "ability", round)
    /\ UNCHANGED <<currentUnitId, turnOrder, round, phase, validMoves, revealedCells>>

(***************************************************************************)
(* Class abilities                                                         *)
(***************************************************************************)
shieldWallAllies(us, unitId) ==
  {i \in DOMAIN us : /\ i # unitId
                     /\ us[i].type = "dwarf"
                     /\ us[i].hp > 0
                     /\ calculateDistance(us[unitId].position, us[i].position) = 1}

shieldWallAction(unitId) ==
  LET unit == units[unitId]
      adjacentAllies == shieldWallAllies(units, unitId)
  IN  IF unit.actionsRemaining <= 0 \/ unit.class # "voidguard" THEN UNCHANGED vars
      ELSE IF ~HasEffect(unit.statusEffects, "shieldRaised") THEN RefuseWithLog
      ELSE IF adjacentAllies = {} THEN RefuseWithLog
      ELSE
        /\ units' = [i \in DOMAIN units |->
                       IF i \in adjacentAllies
                       THEN [units[i] EXCEPT !.statusEffects =
                               PushEffect(RemoveEffects(@, {"shieldWall"}), "shieldWall", 1, 1)]
                       ELSE IF i = unitId
                       THEN [units[i] EXCEPT !.actionsRemaining = @ - 1]
                       ELSE units[i]]
        /\ selectedAction' = null
        /\ validTargets' = << >>
        /\ combatLog' = addLogEntry(Kept(combatLog), "ability", round)
        /\ UNCHANGED <<currentUnitId, turnOrder, round, phase, validMoves, revealedCells>>

slamTargets(us, unitId) ==
  {i \in DOMAIN us : /\ us[i].type # "dwarf"
                     /\ us[i].hp > 0
                     /\ calculateDistance(us[unitId].position, us[i].position) = 1}

\* the resolution of one enemy of a Graviton Slam: no penalty and no effect
\* enters the roll
SlamResult(attackBonus, targetAC, roll, rolled) ==
  LET total == roll + attackBonus
      hit == total >= targetAC
      critical == isCriticalHit(roll, total, targetAC)
  IN  [hit |-> hit, critical |-> critical, total |-> total,
       damage |-> IF ~hit THEN 0 ELSE IF critical THEN 2 * rolled ELSE rolled]

SlamOutcome(us, unitId, enemyId, roll, rolls) ==
  SlamResult(attackBonusOf(us[unitId]), ac(us[enemyId]), roll,
             rollDamage(damageOf(us[unitId]), rolls).total)

SlamDamages(us, unitId, enemyId) ==
  {SlamResult(attackBonusOf(us[unitId]), ac(us[enemyId]), roll, rolled).damage :
      roll \in rollD20, rolled \in DamageTotals(damageOf(us[unitId]))}

\* On a hit the handler calls pushUnit from inside the update of the enemy's
\* hp.  The store commits the nested update (the new position and its log
\* entry) first and then replaces the whole state by the result of the
\* enclosing update, which was computed from the state before the nested
\* call: the knockback and its log entry do not survive the handler.
gravitonSlamAction(unitId) ==
  LET unit == units[unitId]
      adjacentEnemies == slamTargets(units, unitId)
  IN  IF unit.actionsRemaining < 2 \/ unit.class # "voidguard" THEN UNCHANGED vars
      ELSE IF adjacentEnemies = {} THEN RefuseWithLog
      ELSE
        \E dmg \in [adjacentEnemies ->
                      UNION {SlamDamages(units, unitId, i) : i \in adjacentEnemies}] :
          /\ \A i \in adjacentEnemies : dmg[i] \in SlamDamages(units, unitId, i)
          /\ LET order == FilterUnits(adjacentEnemies)
                 entries == [k \in 1..Len(order) |->
                               IF dmg[order[k]] > 0 THEN "damage" ELSE "miss"]
                            \o <<"ability">>
             IN  /\ units' = [i \in DOMAIN units |->
                                IF i \in adjacentEnemies
                                THEN [units[i] EXCEPT !.hp = TakeDamage(@, dmg[i])]
                                ELSE IF i = unitId
                                THEN [units[i] EXCEPT !.actionsRemaining = @ - 2]
                                ELSE units[i]]
                 /\ selectedAction' = null
                 /\ validTargets' = << >>
                 /\ combatLog' = addLogEntries(Kept(combatLog), entries, round)
                 /\ UNCHANGED <<currentUnitId, turnOrder, round, phase,
                                validMoves, revealedCells>>

precisionDrillingAction(unitId) ==
  IF units[unitId].actionsRemaining < 2 \/ units[unitId].class # "asteroidMiner"
  THEN UNCHANGED vars
  ELSE
    /\ units' = [units EXCEPT
                   ![unitId].statusEffects = PushEffect(@, "precisionDrilling", 1, 1),
                   ![unitId].actionsRemaining = @ - 2]
    /\ selectedAction' = null
    /\ validTargets' = << >>
    /\ combatLog' = addLogEntry(Kept(combatLog), "ability", round)
    /\ UNCHANGED <<currentUnitId, turnOrder, round, phase, validMoves, revealedCells>>

\* the outcomes of rollDamage('1d6')
HealRolls == {rollDamage(<<"1","d","6">>, rolls).total : rolls \in DamageRolls(<<"1","d","6">>)}

\* The 'heal' and 'ability' entries of the two variants are written from
\* inside the update and are replaced with the rest of the nested commit; only
\* the entry written after the update stays in the log.
combatBrewAction(unitId, targetId, choice) ==
  LET unit == units[unitId]
      target == units[targetId]
  IN  IF unit.actionsRemaining < 2 \/ unit.class # "brewmasterEngineer" THEN UNCHANGED vars
      ELSE IF calculateDistance(unit.position, target.position) # 1 THEN RefuseWithLog
      ELSE IF target.type # "dwarf" \/ target.hp <= 0 THEN RefuseWithLog
      ELSE
        \E heal \in HealRolls :
          LET brewed == IF choice = "heal"
                        THEN [units EXCEPT ![targetId].hp = Healed(target, heal)]
                        ELSE [units EXCEPT ![targetId].statusEffects =
                                PushEffect(RemoveEffects(@, {"combatBrewDamage"}),
                                           "combatBrewDamage", 2, 1)]
          IN  /\ units' = [brewed EXCEPT ![unitId].actionsRemaining = @ - 2]
              /\ selectedAction' = null
              /\ validTargets' = << >>
              /\ combatLog' = addLogEntry(Kept(combatLog), "ability", round)
              /\ UNCHANGED <<currentUnitId, turnOrder, round, phase,
                             validMoves, revealedCells>>


(***************************************************************************)
(* useAbility                                                              *)
(***************************************************************************)
\* an argument that is not passed
noTarget == 0
noPosition == << >>

\* `DWARF_STATS[user.class]?.abilityCost || 0` for a dwarf, 0 for the others
abilityCostOf(u) == IF u.type = "dwarf" THEN DWARF_STATS[u.class].abilityCost ELSE 0

\* the 3x3 block around the target cell, clipped to the grid
OreSenseCells(targetPos) ==
  {c \in Cells : Abs(c[1] - targetPos[1]) <= 1 /\ Abs(c[2] - targetPos[2]) <= 1}

useAbility(userId, targetId, targetPos) ==
  LET user == units[userId]
      abilityCost == abilityCostOf(user)
      paid == [units EXCEPT ![userId].actionsRemaining = @ - abilityCost]
  IN  IF user.actionsRemaining < abilityCost THEN UNCHANGED vars
      ELSE
        /\ selectedAction' = null
        /\ validTargets' = << >>
        /\ UNCHANGED <<currentUnitId, turnOrder, round, phase, validMoves>>
        /\ IF user.class = "voidguard" /\ targetId # noTarget
           THEN /\ units' = [i \in DOMAIN units |->
                               IF i = targetId
                               THEN [paid[i] EXCEPT !.statusEffects =
                                                       PushEffect(@, "shieldWall", 1, 1)]
                               ELSE paid[i]]
                /\ combatLog' = addLogEntry(Kept(combatLog), "ability", round)
                /\ UNCHANGED revealedCells
           ELSE IF user.class = "asteroidMiner" /\ targetPos # noPosition
           THEN /\ revealedCells' = revealedCells \cup OreSenseCells(targetPos)
                /\ units' = paid
                /\ combatLog' = addLogEntry(Kept(combatLog), "ability", round)
           ELSE IF user.class = "brewmasterEngineer" /\ targetId # noTarget
           THEN \E heal \in HealRolls :
                  /\ units' = [i \in DOMAIN units |->
                                 IF i = targetId
                                 THEN [paid[i] EXCEPT !.hp = Healed(paid[i], heal)]
                                 ELSE paid[i]]
                  /\ combatLog' = addLogEntry(Kept(combatLog), "heal", round)
                  /\ UNCHANGED revealedCells
           ELSE IF user.class = "starRanger" /\ targetId # noTarget
           THEN /\ units' = [paid EXCEPT ![userId].statusEffects =
                                            PushEffect(@, "aimed", 2, 1)]
                /\ combatLog' = addLogEntry(Kept(combatLog), "ability", round)
                /\ UNCHANGED revealedCells
           ELSE UNCHANGED <<units, revealedCells, combatLog>>

(***************************************************************************)
(* The controller: it issues the commands of the store (the GameStore      *)
(* interface) for the unit whose turn it is, as the board, the action bar  *)
(* and the enemy routine do.  The board filters its clicks through         *)
(* validMoves and validTargets before it calls moveUnit, attackUnit and    *)
(* useAbility; the controller does not, so the guards exercised are the    *)
(* ones the commands carry themselves.  selectUnit (it sets the cursor)    *)
(* has no caller in the components; only the cursor encounter issues it.   *)
(* turnsEnded is the controller's count of the turns it has ended; the     *)
(* store has no such counter (the round counter does not advance when the  *)
(* order wraps over dead units).  call is a record kept by the controller: *)
(* on the bench, of a grid utility called outside the store (its arguments *)
(* and the value it returned); in the beam, splash, knockback and ability  *)
(* encounters, of the command issued last; in the timed encounters, of the *)
(* pending timers of the enemy routine; in the log encounter, the mark     *)
(* that the log is kept whole.  The other encounters leave it at NoCall,   *)
(* and in them the timers that endTurn and initializeGame set for the      *)
(* enemy routine do not fire.                                              *)
(***************************************************************************)
ctlvars == <<vars, turnsEnded, call>>

NoCall == [fn |-> "none"]

SelectKinds == {"move"}

\* the stance handlers push without looking at the effects already carried, so
\* the exploration stops stacking them at MaxEffects
CanStack == Len(units[currentUnitId].statusEffects) < MaxEffects

Select ==
  /\ \E action \in SelectKinds : selectAction(action)
  /\ UNCHANGED <<turnsEnded, call>>
Move ==
  /\ \E position \in Arena : moveUnit(currentUnitId, position)
  /\ UNCHANGED <<turnsEnded, call>>
Step ==
  /\ \E position \in Arena : stepUnit(currentUnitId, position)
  /\ UNCHANGED <<turnsEnded, call>>
Strike ==
  /\ \E targetId \in UnitIds \ {currentUnitId} : attackUnit(currentUnitId, targetId)
  /\ UNCHANGED <<turnsEnded, call>>
Aim == CanStack /\ aimAction(currentUnitId) /\ UNCHANGED <<turnsEnded, call>>
Defend == CanStack /\ defendAction(currentUnitId) /\ UNCHANGED <<turnsEnded, call>>
DropProne == CanStack /\ dropProneAction(currentUnitId) /\ UNCHANGED <<turnsEnded, call>>
RaiseShield == CanStack /\ raiseShieldAction(currentUnitId) /\ UNCHANGED <<turnsEnded, call>>
TakeCover == CanStack /\ takeCoverAction(currentUnitId) /\ UNCHANGED <<turnsEnded, call>>
Brace == CanStack /\ braceAction(currentUnitId) /\ UNCHANGED <<turnsEnded, call>>
TakeCoverEnhanced ==
  CanStack /\ takeCoverEnhancedAction(currentUnitId) /\ UNCHANGED <<turnsEnded, call>>
Reload == reloadAction(currentUnitId) /\ UNCHANGED <<turnsEnded, call>>
ShieldWall == shieldWallAction(currentUnitId) /\ UNCHANGED <<turnsEnded, call>>
GravitonSlam == gravitonSlamAction(currentUnitId) /\ UNCHANGED <<turnsEnded, call>>
PrecisionDrilling ==
  CanStack /\ precisionDrillingAction(currentUnitId) /\ UNCHANGED <<turnsEnded, call>>
CombatBrew ==
  /\ \E targetId \in UnitIds : \E choice \in {"heal", "damage"} :
       /\ Len(units[targetId].statusEffects) < MaxEffects
       /\ combatBrewAction(currentUnitId, targetId, choice)
  /\ UNCHANGED <<turnsEnded, call>>
Ability ==
  /\ \/ \E targetId \in UnitIds :
          /\ Len(units[targetId].statusEffects) < MaxEffects
          /\ useAbility(currentUnitId, targetId, noPosition)
     \/ \E targetPos \in SenseTargets : useAbility(currentUnitId, noTarget, targetPos)
  /\ UNCHANGED <<turnsEnded, call>>
EndTurn == endTurn /\ turnsEnded' = turnsEnded + 1 /\ UNCHANGED call

\* an encounter right after initializeGame
Start == Init /\ turnsEnded = 0 /\ call = NoCall

\* the full command set, for the first MaxTurns turns of an encounter
Playing == turnsEnded < MaxTurns

Next ==
  \/ Playing /\ Select
  \/ Playing /\ Move
  \/ Playing /\ Step
  \/ Playing /\ Strike
  \/ Playing /\ Aim
  \/ Playing /\ Defend
  \/ Playing /\ DropProne
  \/ Playing /\ RaiseShield
  \/ Playing /\ TakeCover
  \/ Playing /\ Brace
  \/ Playing /\ TakeCoverEnhanced
  \/ Playing /\ Reload
  \/ Playing /\ ShieldWall
  \/ Playing /\ GravitonSlam
  \/ Playing /\ PrecisionDrilling
  \/ Playing /\ CombatBrew
  \/ Playing /\ Ability
  \/ Playing /\ EndTurn

Spec == Start /\ [][Next]_ctlvars

\* the duels: a roster with the initiative order rolled for it, played with
\* moves and strikes over DuelTurns turns
Duels ==
  { [roster |-> << <<"dwarf", "brewmasterEngineer", <<1,5>> >>,
                   <<"enemy", "voidHound", <<4,4>> >> >>,
     order |-> <<2, 1>>],
    [roster |-> << <<"dwarf", "asteroidMiner", <<2,4>> >>,
                   <<"enemy", "corruptedMiningDrone", <<6,2>> >> >>,
     order |-> <<1, 2>>] }

StartDuel ==
  /\ \E duel \in Duels : initializeGame(duel.roster, duel.order)
  /\ turnsEnded = 0
  /\ call = NoCall

Duelling == turnsEnded < DuelTurns

NextDuel ==
  \/ Duelling /\ Select
  \/ Duelling /\ Move
  \/ Duelling /\ Strike
  \/ Duelling /\ EndTurn

SpecDuel == StartDuel /\ [][NextDuel]_ctlvars

\* the duels again, with the action bar's choices: the acting unit picks the
\* move, the strike, its class ability or the aim stance before it acts
ChooseKinds == {"move", "strike", "ability", "aim"}

Choose ==
  /\ \E action \in ChooseKinds : selectAction(action)
  /\ UNCHANGED <<turnsEnded, call>>

NextChoice ==
  \/ Duelling /\ Choose
  \/ Duelling /\ Move
  \/ Duelling /\ Strike
  \/ Duelling /\ EndTurn

SpecChoice == StartDuel /\ [][NextChoice]_ctlvars

\* the duels with the prone stance: the acting unit drops prone, moves, steps
\* or ends its turn
NextProne ==
  \/ Duelling /\ DropProne
  \/ Duelling /\ Select
  \/ Duelling /\ Move
  \/ Duelling /\ Step
  \/ Duelling /\ EndTurn

SpecProne == StartDuel /\ [][NextProne]_ctlvars

\* the brewmaster's duel with the brewmaster first, and with the class ability
\* used on any unit
StartHeal ==
  /\ initializeGame(<< <<"dwarf", "brewmasterEngineer", <<1,5>> >>,
                       <<"enemy", "voidHound", <<4,4>> >> >>, <<1, 2>>)
  /\ turnsEnded = 0
  /\ call = NoCall

NextHeal ==
  \/ Duelling /\ Strike
  \/ Duelling /\ Ability
  \/ Duelling /\ EndTurn

SpecHeal == StartHeal /\ [][NextHeal]_ctlvars

\* the skirmish: a dwarf against two enemies, the last of the order within
\* reach of the dwarf's weapon, played with strikes and the defend stance over
\* DuelTurns turns
Skirmish ==
  [roster |-> << <<"dwarf", "asteroidMiner", <<2,4>> >>,
                 <<"enemy", "goblinScavenger", <<6,6>> >>,
                 <<"enemy", "voidHound", <<4,4>> >> >>,
   order |-> <<1, 2, 3>>]

StartSkirmish ==
  /\ initializeGame(Skirmish.roster, Skirmish.order)
  /\ turnsEnded = 0
  /\ call = NoCall

NextSkirmish ==
  \/ Duelling /\ Strike
  \/ Duelling /\ Defend
  \/ Duelling /\ EndTurn

SpecSkirmish == StartSkirmish /\ [][NextSkirmish]_ctlvars

\* the volleys: a dwarf with a magazine against a melee enemy and against the
\* line weapon with its single shot, played from the spawn cells with strikes
\* and the defend stance over DuelTurns turns, so that the second endTurn
\* completes the round
Volleys ==
  { [roster |-> << <<"dwarf", "asteroidMiner", <<2,4>> >>,
                   <<"enemy", "voidHound", <<4,4>> >> >>,
     order |-> <<1, 2>>],
    [roster |-> << <<"dwarf", "asteroidMiner", <<2,4>> >>,
                   <<"enemy", "corruptedMiningDrone", <<6,2>> >> >>,
     order |-> <<2, 1>>] }

StartVolley ==
  /\ \E volley \in Volleys : initializeGame(volley.roster, volley.order)
  /\ turnsEnded = 0
  /\ call = NoCall

NextVolley ==
  \/ Duelling /\ Strike
  \/ Duelling /\ Defend
  \/ Duelling /\ EndTurn

SpecVolley == StartVolley /\ [][NextVolley]_ctlvars

(***************************************************************************)
(* The bench: calls of the grid utilities on their own.  The store stays   *)
(* in the state create() gives it (no encounter is initialized), and call  *)
(* holds the arguments of one call, then the value the utility returned.   *)
(***************************************************************************)
\* a second floor plan: crates in a group, a crate on the way to the door
CRATE_YARD_LAYOUT ==
  << <<"#","#","#","#","#","#","#","#">>,
     <<"#",".",".",".",".",".",".","#">>,
     <<"#","C",".",".",".",".","C","#">>,
     <<"#","C","C",".",".",".",".","#">>,
     <<"#",".",".",".",".","C",".","#">>,
     <<"#",".",".",".","#","#",".","D">>,
     <<"#",".",".",".","C",".",".","#">>,
     <<"#","#","#","#","#","#","#","#">> >>

\* initializeGrid over a given floor plan
GridOf(layout) == [pos \in Cells |-> CharType(layout[pos[2] + 1][pos[1] + 1])]

Grids == {initializeGrid, GridOf(CRATE_YARD_LAYOUT)}

\* the cells a unit can stand on
Standable(grid) == {pos \in Cells : grid[pos] # "wall"}

\* the state of the store before initializeGame
Created ==
  /\ units = << >>
  /\ turnOrder = << >>
  /\ currentUnitId = null
  /\ round = 1
  /\ phase = "combat"
  /\ selectedAction = null
  /\ validMoves = << >>
  /\ validTargets = << >>
  /\ revealedCells = {}
  /\ combatLog = NoEntries

Pending == [type |-> "pending"]

\* units other than the attacker and the target in a cover call
CoverOthers == 1

\* the status effects a target can carry into a cover call
CoverEffects ==
  { << >>,
    PushEffect(<< >>, "takingCover", 1, 1),
    PushEffect(<< >>, "takingCoverEnhanced", 1, 1) }

\* the subsets of S with at most n elements
RECURSIVE UpTo(_, _)
UpTo(S, n) ==
  IF n = 0 THEN {{}}
  ELSE LET smaller == UpTo(S, n - 1)
       IN  smaller \cup {T \cup {x} : T \in smaller, x \in S}

\* a cover call: two units on distinct cells, the other living units, the
\* status effects of the target (getCover does not take them)
StartCover ==
  /\ Created
  /\ turnsEnded = 0
  /\ \E grid \in Grids :
       \E attacker \in Standable(grid) :
         \E target \in Standable(grid) \ {attacker} :
           \E others \in UpTo(Standable(grid) \ {attacker, target}, CoverOthers) :
             \/ call = [fn |-> "getCover", attacker |-> attacker,
                        target |-> target, grid |-> grid,
                        living |-> others \cup {attacker, target},
                        effects |-> << >>, result |-> Pending]
             \/ \E effects \in CoverEffects :
                  call = [fn |-> "getCoverWithEffects", attacker |-> attacker,
                          target |-> target, grid |-> grid,
                          living |-> others \cup {attacker, target},
                          effects |-> effects, result |-> Pending]

CallGetCover ==
  /\ call.fn = "getCover"
  /\ call.result = Pending
  /\ call' = [call EXCEPT !.result =
                getCover(call.attacker, call.target, call.grid, call.living)]
  /\ UNCHANGED <<vars, turnsEnded>>

CallGetCoverWithEffects ==
  /\ call.fn = "getCoverWithEffects"
  /\ call.result = Pending
  /\ call' = [call EXCEPT !.result =
                getCoverWithEffects(call.attacker, call.target, call.grid,
                                    call.living, call.effects)]
  /\ UNCHANGED <<vars, turnsEnded>>

NextCover == CallGetCover \/ CallGetCoverWithEffects

SpecCover == StartCover /\ [][NextCover]_ctlvars

\* the highest speed of a unit class (the Void Hound's) bounds the speeds tried
MaxSpeed == 5
Speeds == 0 .. MaxSpeed

\* units other than the moving one in a movement call
RangeOthers == 1

\* a movement call: the cell of the moving unit and the cells of the living
\* units; the bench makes the call with every speed up to MaxSpeed
StartRange ==
  /\ Created
  /\ turnsEnded = 0
  /\ \E grid \in Grids :
       \E start \in Standable(grid) :
         \E others \in UpTo(Standable(grid) \ {start}, RangeOthers) :
           call = [fn |-> "getMovementRange", start |-> start, grid |-> grid,
                   occupied |-> others \cup {start}, result |-> Pending]

CallGetMovementRange ==
  /\ call.fn = "getMovementRange"
  /\ call.result = Pending
  /\ call' = [call EXCEPT !.result =
                [sp \in Speeds |->
                   Range(getMovementRange(call.start, sp, call.grid, call.occupied))]]
  /\ UNCHANGED <<vars, turnsEnded>>

NextRange == CallGetMovementRange

SpecRange == StartRange /\ [][NextRange]_ctlvars

\* a third floor plan: two wall cells that touch at a corner only
DIAGONAL_GAP_LAYOUT ==
  << <<"#","#","#","#","#","#","#","#">>,
     <<"#",".",".",".",".",".",".","#">>,
     <<"#",".",".",".",".",".",".","#">>,
     <<"#",".",".","#",".",".","#","#">>,
     <<"#",".",".",".","#",".",".","#">>,
     <<"#",".",".",".",".",".",".","#">>,
     <<"#",".",".",".",".",".",".","#">>,
     <<"#","#","#","#","#","#","#","#">> >>

SightGrids == Grids \cup {GridOf(DIAGONAL_GAP_LAYOUT)}

\* a line-of-sight call between any two cells of the grid
StartSight ==
  /\ Created
  /\ turnsEnded = 0
  /\ \E grid \in SightGrids :
       \E from \in Cells :
         \E to \in Cells :
           call = [fn |-> "hasLineOfSight", from |-> from, to |-> to,
                   grid |-> grid, result |-> Pending]

CallHasLineOfSight ==
  /\ call.fn = "hasLineOfSight"
  /\ call.result = Pending
  /\ call' = [call EXCEPT !.result =
                [type |-> "boolean",
                 value |-> hasLineOfSight(call.from, call.to, call.grid)]]
  /\ UNCHANGED <<vars, turnsEnded>>

NextSight == CallHasLineOfSight

SpecSight == StartSight /\ [][NextSight]_ctlvars

(***************************************************************************)
(* The beam: the line weapon fires along row 4 of the storage bay, where   *)
(* the Voidguard, the Asteroid Miner and the Void Hound stand on their     *)
(* spawn cells, with a Goblin Scavenger next to the drone.  The controller *)
(* keeps in call the attackUnit command it issued last.  The Voidguard is  *)
(* beyond the range of the beam and is never the declared target.          *)
(***************************************************************************)
BeamRoster ==
  << <<"enemy", "corruptedMiningDrone", <<6,4>> >>,
     <<"enemy", "goblinScavenger", <<5,4>> >>,
     <<"enemy", "voidHound", <<4,4>> >>,
     <<"dwarf", "asteroidMiner", <<2,4>> >>,
     <<"dwarf", "voidguard", <<1,4>> >> >>

\* turns played in the beam encounter
BeamTurns == 1

Beaming == turnsEnded < BeamTurns

StartBeam ==
  /\ initializeGame(BeamRoster, <<1, 2, 3, 4, 5>>)
  /\ turnsEnded = 0
  /\ call = NoCall

\* the targets declared are within the weapon range, as the board's valid
\* targets are
Fire ==
  /\ \E targetId \in UnitIds \ {currentUnitId} :
        /\ calculateDistance(units[currentUnitId].position, units[targetId].position)
              <= WeaponRange(units[currentUnitId])
        /\ attackUnit(currentUnitId, targetId)
        /\ call' = [fn |-> "attackUnit", attackerId |-> currentUnitId,
                    targetId |-> targetId]
  /\ UNCHANGED turnsEnded

NextBeam ==
  \/ Beaming /\ Fire
  \/ Beaming /\ EndTurn

SpecBeam == StartBeam /\ [][NextBeam]_ctlvars

(***************************************************************************)
(* pushUnit and the knockback encounters                                   *)
(***************************************************************************)
\* pushUnit: the cell `distance` steps from `pos` along `direction`
PushTarget(pos, direction, distance) ==
  <<pos[1] + direction[1] * distance, pos[2] + direction[2] * distance>>

\* variant of PushRefused: the occupant of the cell is not looked for
PushRefusedByTerrain(us, unitId, target) ==
  \/ ~InGrid(target[1], target[2])
  \/ initializeGrid[target] = "wall"

\* pushUnit: off the grid, a wall, or held by another unit with hp > 0
PushRefused(us, unitId, target) ==
  \/ ~InGrid(target[1], target[2])
  \/ initializeGrid[target] = "wall"
  \/ \E i \in DOMAIN us : us[i].position = target /\ us[i].hp > 0 /\ i # unitId

\* pushUnit: the value returned and the cell the unit is on afterwards.  The
\* requested destination is validated first; the brace is looked at after it.
pushUnitOutcome(us, unitId, direction, distance) ==
  LET unit == us[unitId]
      target == PushTarget(unit.position, direction, distance)
      reduced == PushTarget(unit.position, direction, 1)
      refused == [ok |-> FALSE, position |-> unit.position]
  IN  IF PushRefused(us, unitId, target) THEN refused
      ELSE IF HasEffect(unit.statusEffects, "braced") /\ distance > 1
      THEN IF PushRefused(us, unitId, reduced) THEN refused
           ELSE [ok |-> TRUE, position |-> reduced]
      ELSE [ok |-> TRUE, position |-> target]

pushUnit(unitId, direction, distance) ==
  LET outcome == pushUnitOutcome(units, unitId, direction, distance)
  IN  IF ~outcome.ok THEN UNCHANGED vars
      ELSE /\ units' = [units EXCEPT ![unitId].position = outcome.position]
           /\ combatLog' = addLogEntry(Kept(combatLog), "ability", round)
           /\ UNCHANGED <<currentUnitId, turnOrder, round, phase, selectedAction,
                          validMoves, validTargets, revealedCells>>

\* a knockback of up to MaxPush cells
MaxPush == 2

\* three units of the roster at their spawn cells
PushRoster ==
  << <<"dwarf", "voidguard", <<1,4>> >>,
     <<"dwarf", "asteroidMiner", <<2,4>> >>,
     <<"enemy", "voidHound", <<4,4>> >> >>

\* the controller of the knockback encounters plays PushTurns turns
PushTurns == 2

Pushing == turnsEnded < PushTurns

StartPush ==
  /\ initializeGame(PushRoster, <<1, 2, 3>>)
  /\ turnsEnded = 0
  /\ call = NoCall

\* one knockback per encounter, of any unit in any direction; the value
\* pushUnit returns is kept with the call
Push ==
  /\ call = NoCall
  /\ \E unitId \in UnitIds : \E d \in DOMAIN Directions : \E distance \in 1..MaxPush :
       /\ pushUnit(unitId, Directions[d], distance)
       /\ call' = [fn |-> "pushUnit", unitId |-> unitId, direction |-> Directions[d],
                   distance |-> distance,
                   result |-> pushUnitOutcome(units, unitId, Directions[d], distance).ok]
  /\ UNCHANGED turnsEnded

NextPush ==
  \/ Pushing /\ Brace
  \/ Pushing /\ Push
  \/ Pushing /\ EndTurn

SpecPush == StartPush /\ [][NextPush]_ctlvars

(***************************************************************************)
(* The dice bench: rollDamage is called with a damage string of the unit   *)
(* statistics or with any string of up to MaxDice glyphs.                  *)
(***************************************************************************)
MaxDice == 3

Glyphs == {"0", "1", "d", "+", "x"}

\* the strings of exactly n glyphs
Typed(n) == [1..n -> Glyphs]

\* the damage strings of the unit statistics
WeaponDice ==
  {DWARF_STATS[c].damage : c \in DOMAIN DWARF_STATS}
    \cup {ENEMY_STATS[c].damage : c \in DOMAIN ENEMY_STATS}

DiceStrings == WeaponDice \cup UNION {Typed(n) : n \in 0..MaxDice}

StartDice ==
  /\ Created
  /\ turnsEnded = 0
  /\ \E diceString \in DiceStrings :
       call = [fn |-> "rollDamage", diceString |-> diceString, result |-> Pending]

\* rollDamage has no throw statement: every call returns a damage object
CallRollDamage ==
  /\ call.fn = "rollDamage"
  /\ call.result = Pending
  /\ \E rolls \in DamageRolls(call.diceString) :
       call' = [call EXCEPT !.result =
                  [type |-> "damage", value |-> rollDamage(call.diceString, rolls)]]
  /\ UNCHANGED <<vars, turnsEnded>>

NextDice == CallRollDamage

SpecDice == StartDice /\ [][NextDice]_ctlvars

\* the cells clicked in the placement encounter: a floor cell, the cell the
\* Voidguard starts on and a wall cell
Clicks == { <<2,3>>, <<1,4>>, <<0,3>> }

MoveTo ==
  /\ \E position \in Clicks : moveUnit(currentUnitId, position)
  /\ UNCHANGED <<turnsEnded, call>>

StepTo ==
  /\ \E position \in Clicks : stepUnit(currentUnitId, position)
  /\ UNCHANGED <<turnsEnded, call>>

\* the placement encounter: the knockback roster, with the action bar's
\* choices, moves and steps to the cells clicked, and one knockback
NextPlace ==
  \/ Duelling /\ Choose
  \/ Duelling /\ MoveTo
  \/ Duelling /\ StepTo
  \/ Duelling /\ Push
  \/ Duelling /\ EndTurn

SpecPlace == StartPush /\ [][NextPlace]_ctlvars

\* a stance is taken again by a unit carrying fewer than MaxStances effects
MaxStances == 2

CanRestack == Len(units[currentUnitId].statusEffects) < MaxStances

AimAgain == CanRestack /\ aimAction(currentUnitId) /\ UNCHANGED <<turnsEnded, call>>
DefendAgain == CanRestack /\ defendAction(currentUnitId) /\ UNCHANGED <<turnsEnded, call>>
RaiseShieldAgain ==
  CanRestack /\ raiseShieldAction(currentUnitId) /\ UNCHANGED <<turnsEnded, call>>

\* the stance encounter: the knockback roster taking stances, also one it
\* already holds
NextStance ==
  \/ Duelling /\ AimAgain
  \/ Duelling /\ DefendAgain
  \/ Duelling /\ RaiseShieldAgain
  \/ Duelling /\ ShieldWall
  \/ Duelling /\ EndTurn

SpecStance == StartPush /\ [][NextStance]_ctlvars

\* the brew encounter: the Brewmaster Engineer next to the Voidguard, against
\* the Void Hound; the units brew, strike and end their turns
BrewRoster ==
  << <<"dwarf", "brewmasterEngineer", <<1,5>> >>,
     <<"dwarf", "voidguard", <<1,4>> >>,
     <<"enemy", "voidHound", <<4,4>> >> >>

StartBrew ==
  /\ initializeGame(BrewRoster, <<1, 2, 3>>)
  /\ turnsEnded = 0
  /\ call = NoCall

NextBrew ==
  \/ Duelling /\ CombatBrew
  \/ Duelling /\ Strike
  \/ Duelling /\ EndTurn

SpecBrew == StartBrew /\ [][NextBrew]_ctlvars

(***************************************************************************)
(* The splash encounter: the Brewmaster Engineer and the Asteroid Miner    *)
(* against the Void Hound, the hound first.  The controller keeps in call  *)
(* the attackUnit command it issued last.                                  *)
(***************************************************************************)
SplashRoster ==
  << <<"dwarf", "brewmasterEngineer", <<1,5>> >>,
     <<"dwarf", "asteroidMiner", <<2,4>> >>,
     <<"enemy", "voidHound", <<4,4>> >> >>

StartSplash ==
  /\ initializeGame(SplashRoster, <<3, 1, 2>>)
  /\ turnsEnded = 0
  /\ call = NoCall

NextSplash ==
  \/ Duelling /\ Select
  \/ Duelling /\ Move
  \/ Duelling /\ Fire
  \/ Duelling /\ EndTurn

SpecSplash == StartSplash /\ [][NextSplash]_ctlvars

\* the drilling encounter: the Asteroid Miner against the Void Hound; the
\* units take cover, drill, strike and end their turns
DrillRoster ==
  << <<"dwarf", "asteroidMiner", <<2,4>> >>,
     <<"enemy", "voidHound", <<4,4>> >> >>

StartDrill ==
  /\ initializeGame(DrillRoster, <<2, 1>>)
  /\ turnsEnded = 0
  /\ call = NoCall

NextDrill ==
  \/ Duelling /\ TakeCoverEnhanced
  \/ Duelling /\ PrecisionDrilling
  \/ Duelling /\ Strike
  \/ Duelling /\ EndTurn

SpecDrill == StartDrill /\ [][NextDrill]_ctlvars

(***************************************************************************)
(* The ability encounter: the units of the brew encounter raise the        *)
(* shield, take cover and end their turns, and the controller issues one   *)
(* ability command, which it keeps in call.                                *)
(***************************************************************************)
\* takeCoverEnhancedAction replaces the effect it finds, so repeating it
\* spends action points without adding effects
TakeCoverAgain == takeCoverEnhancedAction(currentUnitId) /\ UNCHANGED <<turnsEnded, call>>

Order ==
  /\ call = NoCall
  /\ \/ /\ shieldWallAction(currentUnitId)
        /\ call' = [fn |-> "shieldWallAction", unitId |-> currentUnitId,
                    targetId |-> noTarget]
     \/ /\ gravitonSlamAction(currentUnitId)
        /\ call' = [fn |-> "gravitonSlamAction", unitId |-> currentUnitId,
                    targetId |-> noTarget]
     \/ /\ precisionDrillingAction(currentUnitId)
        /\ call' = [fn |-> "precisionDrillingAction", unitId |-> currentUnitId,
                    targetId |-> noTarget]
     \/ \E targetId \in UnitIds : \E choice \in {"heal", "damage"} :
          /\ combatBrewAction(currentUnitId, targetId, choice)
          /\ call' = [fn |-> "combatBrewAction", unitId |-> currentUnitId,
                      targetId |-> targetId]
     \/ \E targetId \in UnitIds :
          /\ useAbility(currentUnitId, targetId, noPosition)
          /\ call' = [fn |-> "useAbility", unitId |-> currentUnitId,
                      targetId |-> targetId]
  /\ UNCHANGED turnsEnded

NextAbility ==
  \/ Duelling /\ RaiseShield
  \/ Duelling /\ TakeCoverAgain
  \/ Duelling /\ Order
  \/ Duelling /\ EndTurn

SpecAbility == StartBrew /\ [][NextAbility]_ctlvars

(***************************************************************************)
(* The cursor encounter: the units of the knockback encounter take cover   *)
(* and end their turns, and the controller selects units.                  *)
(***************************************************************************)
\* selectUnit: `state.currentUnitId = unitId`
selectUnit(unitId) ==
  /\ currentUnitId' = unitId
  /\ UNCHANGED <<units, turnOrder, round, phase, selectedAction, validMoves,
                 validTargets, revealedCells, combatLog>>

SelectUnit ==
  /\ \E unitId \in UnitIds : selectUnit(unitId)
  /\ UNCHANGED <<turnsEnded, call>>

NextCursor ==
  \/ Duelling /\ SelectUnit
  \/ Duelling /\ TakeCoverAgain
  \/ Duelling /\ EndTurn

SpecCursor == StartPush /\ [][NextCursor]_ctlvars

(***************************************************************************)
(* The enemy routine (processEnemyTurn).  Its steps are callbacks of       *)
(* timers; in the timed encounters call holds the timers that are pending, *)
(* each with the values its callback has captured, and the command issued  *)
(* last together with the unit whose routine issued it (0: the player).    *)
(* A pending timer fires at any time.                                      *)
(***************************************************************************)
\* `setTimeout(() => get().processEnemyTurn(), 500)`
EnemyTimer ==
  [pc |-> "processEnemyTurn", unitId |-> noTarget, targetId |-> noTarget,
   targetPos |-> noPosition, distance |-> 0, inSight |-> FALSE, bestMove |-> noPosition]

Without(s, k) == SubSeq(s, 1, k - 1) \o SubSeq(s, k + 1, Len(s))

Issued(fn, by) == [fn |-> fn, by |-> by]

Timed(pending, issued) == [fn |-> "timers", pending |-> pending, issued |-> issued]

\* the timer endTurn and initializeGame set when the cursor unit is an enemy
Scheduled(pending, us, cur) ==
  IF us[cur].type = "enemy" THEN Append(pending, EnemyTimer) ELSE pending

\* the living dwarf the forEach of processEnemyTurn keeps: the first one at
\* the shortest distance
LivingDwarves(us) == {i \in DOMAIN us : us[i].type = "dwarf" /\ us[i].hp > 0}

nearestDwarf(us, cur) ==
  LET d(i) == calculateDistance(us[cur].position, us[i].position)
  IN  CHOOSE i \in LivingDwarves(us) :
        \A j \in LivingDwarves(us) : d(i) < d(j) \/ (d(i) = d(j) /\ i <= j)

\* the move the forEach over validMoves keeps: the first one at the shortest
\* distance below bestDistance; no position when no move is closer
bestMoveOf(moves, targetPos, shortestDistance) ==
  LET d(k) == calculateDistance(moves[k], targetPos)
      closer == {k \in DOMAIN moves : d(k) < shortestDistance}
  IN  IF closer = {} THEN noPosition
      ELSE moves[CHOOSE k \in closer :
                   \A l \in closer : d(k) < d(l) \/ (d(k) = d(l) /\ k <= l)]

\* endTurn as the store runs it: with the timer for the enemy routine
endTurnTimed(pending, by) ==
  /\ endTurn
  /\ turnsEnded' = turnsEnded + 1
  /\ call' = Timed(Scheduled(pending, units', currentUnitId'), Issued("endTurn", by))

\* the callback of the timer: processEnemyTurn up to `setTimeout(() =>
\* processActions(), 500)`
processEnemyTurn(k) ==
  LET rest == Without(call.pending, k)
      currentUnit == units[currentUnitId]
      target == nearestDwarf(units, currentUnitId)
  IN  /\ call.pending[k].pc = "processEnemyTurn"
      /\ call' = Timed(IF \/ currentUnit.type # "enemy" \/ currentUnit.hp <= 0
                          \/ LivingDwarves(units) = {}
                       THEN rest
                       ELSE Append(rest,
                              [pc |-> "processActions", unitId |-> currentUnitId,
                               targetId |-> target,
                               targetPos |-> units[target].position,
                               distance |-> calculateDistance(currentUnit.position,
                                                              units[target].position),
                               inSight |-> getLineOfSight(currentUnit.position,
                                                          units[target].position,
                                                          initializeGrid),
                               bestMove |-> noPosition]),
                       Issued("none", noTarget))
      /\ UNCHANGED <<vars, turnsEnded>>

\* processActions from the fresh state on: the move toward the target, or
\* the end of the turn
moveOrEnd(t, rest) ==
  LET freshUnit == units[t.unitId]
  IN  IF freshUnit.actionsRemaining > 0 /\ t.distance > WeaponRange(freshUnit)
      THEN /\ selectAction("move")
           /\ call' = Timed(Append(rest,
                              [t EXCEPT !.pc = "moveUnit",
                                        !.bestMove =
                                           bestMoveOf(getMovementRange(freshUnit.position,
                                                        speed(freshUnit), initializeGrid,
                                                        LivingCells(units)),
                                                      t.targetPos, t.distance)]),
                            Issued("selectAction", t.unitId))
           /\ UNCHANGED turnsEnded
      ELSE endTurnTimed(rest, t.unitId)

\* processActions up to its first timer
processActions(k) ==
  LET t == call.pending[k]
      rest == Without(call.pending, k)
  IN  /\ t.pc = "processActions"
      /\ IF t.distance <= WeaponRange(units[t.unitId]) /\ t.inSight
         THEN /\ selectAction("strike")
              /\ call' = Timed(Append(rest, [t EXCEPT !.pc = "attackUnit"]),
                               Issued("selectAction", t.unitId))
              /\ UNCHANGED turnsEnded
         ELSE moveOrEnd(t, rest)

\* processActions after the timer that follows selectAction('strike')
processAttack(k) ==
  LET t == call.pending[k]
  IN  /\ t.pc = "attackUnit"
      /\ attackUnit(t.unitId, t.targetId)
      /\ call' = Timed(Append(Without(call.pending, k), [t EXCEPT !.pc = "fresh"]),
                       Issued("attackUnit", t.unitId))
      /\ UNCHANGED turnsEnded

\* processActions after the timer that follows attackUnit
processFresh(k) ==
  /\ call.pending[k].pc = "fresh"
  /\ moveOrEnd(call.pending[k], Without(call.pending, k))

\* processActions after the timer that follows selectAction('move')
processMove(k) ==
  LET t == call.pending[k]
      rest == Without(call.pending, k)
  IN  /\ t.pc = "moveUnit"
      /\ IF t.bestMove # noPosition
         THEN /\ moveUnit(t.unitId, t.bestMove)
              /\ call' = Timed(Append(rest, [t EXCEPT !.pc = "endTurn"]),
                               Issued("moveUnit", t.unitId))
              /\ UNCHANGED turnsEnded
         ELSE endTurnTimed(rest, t.unitId)

\* processActions after the timer that follows moveUnit
processEnd(k) ==
  /\ call.pending[k].pc = "endTurn"
  /\ endTurnTimed(Without(call.pending, k), call.pending[k].unitId)

\* the controller of the timed encounters plays AiTurns turns
AiTurns == 5

Timing == turnsEnded < AiTurns

TimerFires ==
  /\ Timing
  /\ \E k \in DOMAIN call.pending :
       \/ processEnemyTurn(k)
       \/ processActions(k)
       \/ processAttack(k)
       \/ processFresh(k)
       \/ processMove(k)
       \/ processEnd(k)

\* the player's commands: a strike, and the end of the turn
PlayerStrike ==
  /\ \E targetId \in UnitIds \ {currentUnitId} : attackUnit(currentUnitId, targetId)
  /\ call' = [call EXCEPT !.issued = Issued("attackUnit", noTarget)]
  /\ UNCHANGED turnsEnded

PlayerEndTurn == endTurnTimed(call.pending, noTarget)

OnDwarf == units[currentUnitId].type = "dwarf"

\* the hunt: the Brewmaster Engineer and the Void Hound, the hound first; the
\* player acts on the turn of the dwarf only
HuntRoster ==
  << <<"dwarf", "brewmasterEngineer", <<1,5>> >>,
     <<"enemy", "voidHound", <<4,4>> >> >>

StartHunt ==
  /\ initializeGame(HuntRoster, <<2, 1>>)
  /\ turnsEnded = 0
  /\ call = Timed(Scheduled(<< >>, units, currentUnitId), Issued("none", noTarget))

NextHunt ==
  \/ TimerFires
  \/ Timing /\ OnDwarf /\ PlayerStrike
  \/ Timing /\ OnDwarf /\ PlayerEndTurn

SpecHunt == StartHunt /\ [][NextHunt]_ctlvars

(***************************************************************************)
(* The race: the encounter of the hunt with a player who ends turns and    *)
(* restarts the encounter at any time, also while timers of the enemy      *)
(* routine are pending.                                                    *)
(***************************************************************************)
\* a restart is issued while fewer than MaxPending timers are pending
MaxPending == 2

\* restartGame: initializeGame over the running encounter, any initiative
\* order rolled; the timers set before stay pending
restartGame ==
  /\ \E order \in Orders(Len(HuntRoster)) :
       /\ units' = [initializeUnits(HuntRoster) EXCEPT
                      ![order[1]].isActive = TRUE,
                      ![order[1]].actionsRemaining = ACTIONS_PER_TURN]
       /\ turnOrder' = order
       /\ currentUnitId' = order[1]
  /\ round' = 1
  /\ phase' = "combat"
  /\ combatLog' = addLogEntry(NoEntries, "system", 1)
  /\ call' = Timed(Scheduled(call.pending, units', currentUnitId'),
                   Issued("initializeGame", noTarget))
  /\ UNCHANGED <<selectedAction, validMoves, validTargets, revealedCells, turnsEnded>>

Restart == Len(call.pending) < MaxPending /\ restartGame

NextRace ==
  \/ TimerFires
  \/ Timing /\ PlayerEndTurn
  \/ Timing /\ Restart

SpecRace == StartHunt /\ [][NextRace]_ctlvars

(***************************************************************************)
(* The log encounter: the Voidguard against the Void Hound, with the log   *)
(* of the store kept whole.  The units raise the shield, call the shield   *)
(* wall, strike and end their turns.                                       *)
(***************************************************************************)
LogRoster ==
  << <<"dwarf", "voidguard", <<1,4>> >>,
     <<"enemy", "voidHound", <<4,4>> >> >>

\* the controller of the log encounter plays LogTurns turns and issues
\* commands while the log has fewer than MaxLog entries
LogTurns == 3
MaxLog == 3

Logging == turnsEnded < LogTurns /\ Len(combatLog) < MaxLog

StartLog ==
  /\ initializeGame(LogRoster, <<1, 2>>)
  /\ turnsEnded = 0
  /\ call = [fn |-> "log"]

NextLog ==
  \/ Logging /\ RaiseShield
  \/ Logging /\ ShieldWall
  \/ Logging /\ Strike
  \/ turnsEnded < LogTurns /\ EndTurn

SpecLog == StartLog /\ [][NextLog]_ctlvars

(***************************************************************************)
(* Properties                                                              *)
(***************************************************************************)
Last(s) == s[Len(s)]

Enemies == {i \in UnitIds : units[i].type = "enemy"}
Dwarves == {i \in UnitIds : units[i].type = "dwarf"}

\* the step is an endTurn
TurnEnds == turnsEnded' = turnsEnded + 1

\* the unit activated by the step is not later in the order than the unit
\* whose turn ended
Wraps == IndexOf(turnOrder, currentUnitId') <= IndexOf(turnOrder, currentUnitId)

\* the step leaves every unit, the cursor, the round and the phase as they were
Frozen ==
  /\ units' = units
  /\ currentUnitId' = currentUnitId
  /\ round' = round
  /\ phase' = phase

\* the step appends at most one entry to the log
AtMostOneEntry == combatLog' = combatLog \/ Len(combatLog') = 1

\* the unit whose turn it is has fewer points than `cost`
Short(cost) == units[currentUnitId].actionsRemaining < cost

\* the step charges exactly `cost` points to the unit whose turn it is
Charged(cost) ==
  units'[currentUnitId].actionsRemaining = units[currentUnitId].actionsRemaining - cost

\* C1: in every reachable state the unit the cursor points at has hp > 0, or
\* the phase is victory or defeat.
C1_CursorAlive == units[currentUnitId].hp > 0 \/ phase \in {"victory", "defeat"}

\* C2: whenever every enemy has hp <= 0 the phase is victory, and otherwise
\* whenever every dwarf has hp <= 0 the phase is defeat, already in the state
\* the damaging command leaves.
C2_OutcomeDeclared ==
  LET enemiesDown == \A i \in Enemies : units[i].hp <= 0
      dwarvesDown == \A i \in Dwarves : units[i].hp <= 0
  IN  /\ enemiesDown => phase = "victory"
      /\ ~enemiesDown /\ dwarvesDown => phase = "defeat"

\* C3: while the encounter is being fought, an endTurn that activates a unit not later in the order than the unit
\* whose turn ended raises the round counter by exactly 1 and runs the expiry
\* of the status effects once, also when it got there by skipping dead units;
\* every other endTurn leaves the round counter and the effects as they were.
C3_RoundAdvances ==
  [][TurnEnds /\ phase = "combat" =>
       IF Wraps
       THEN /\ round' = round + 1
            /\ \A i \in UnitIds :
                 units'[i].statusEffects = ExpireEffects(units[i].statusEffects)
       ELSE /\ round' = round
            /\ \A i \in UnitIds : units'[i].statusEffects = units[i].statusEffects
    ]_ctlvars

\* C4: while the encounter is being fought, an effect with duration 1 is still on its unit after an endTurn that
\* does not complete the round, and is gone after the endTurn that completes
\* it.
C4_EffectLifetime ==
  [][TurnEnds /\ phase = "combat" =>
       \A i \in UnitIds : \A k \in DOMAIN units[i].statusEffects :
         units[i].statusEffects[k].duration = 1 =>
           (Wraps <=> ~InSeq(units[i].statusEffects[k], units'[i].statusEffects))
    ]_ctlvars

\* C5: every unit has 0 <= hp <= maxHp in every reachable state.
C5_HpWithinBounds ==
  \A i \in UnitIds : 0 <= units[i].hp /\ units[i].hp <= maxHp(units[i])

\* a damaging command has just left a unit at hp 0
C5_Floored ==
  /\ combatLog # NoEntries
  /\ Last(combatLog).type = "damage"
  /\ \E i \in UnitIds : units[i].hp = 0

\* the unit whose turn it is
Acting == units[currentUnitId]

BudgetWithinBounds ==
  \A i \in UnitIds :
    0 <= units[i].actionsRemaining /\ units[i].actionsRemaining <= ACTIONS_PER_TURN

\* a step of `command`, a handler whose declared cost is `cost`, changes
\* nothing at all when the unit is short of points, and charges exactly its
\* cost when it acts on a unit
Costs(command, cost) ==
  \/ /\ Short(cost) => UNCHANGED vars
     /\ units' # units => Charged(cost)
  \/ ~command

CostsCharged ==
  /\ \A position \in Arena : Costs(moveUnit(currentUnitId, position), 1)
  /\ \A position \in Arena : Costs(stepUnit(currentUnitId, position), 1)
  /\ \A targetId \in UnitIds \ {currentUnitId} :
       Costs(attackUnit(currentUnitId, targetId), 1)
  /\ Costs(aimAction(currentUnitId), 1)
  /\ Costs(defendAction(currentUnitId), 1)
  /\ Costs(dropProneAction(currentUnitId), 1)
  /\ Costs(raiseShieldAction(currentUnitId), 1)
  /\ Costs(takeCoverAction(currentUnitId), 1)
  /\ Costs(braceAction(currentUnitId), 1)
  /\ Costs(takeCoverEnhancedAction(currentUnitId), 1)
  /\ Costs(reloadAction(currentUnitId), 1)
  /\ Costs(shieldWallAction(currentUnitId), 1)
  /\ Costs(gravitonSlamAction(currentUnitId), 2)
  /\ Costs(precisionDrillingAction(currentUnitId), 2)
  /\ \A targetId \in UnitIds : \A choice \in {"heal", "damage"} :
       Costs(combatBrewAction(currentUnitId, targetId, choice), 2)
  /\ \A targetId \in UnitIds :
       Costs(useAbility(currentUnitId, targetId, noPosition), abilityCostOf(Acting))
  /\ \A targetPos \in SenseTargets :
       Costs(useAbility(currentUnitId, noTarget, targetPos), abilityCostOf(Acting))

Rejection == Frozen /\ AtMostOneEntry

\* a step of `command` taken when `illegal` holds is a rejection
Rejects(illegal, command) == Rejection \/ ~illegal \/ ~command

RejectionsLeaveNoTrace ==
  /\ \A position \in Arena :
       Rejects(~moveUnitAccepted(currentUnitId, position),
               moveUnit(currentUnitId, position))
  /\ \A position \in Arena :
       Rejects(~stepUnitAccepted(currentUnitId, position),
               stepUnit(currentUnitId, position))
  /\ \A targetId \in UnitIds \ {currentUnitId} :
       Rejects(\/ Short(1)
               \/ OutOfAmmo(Acting)
               \/ /\ ~isLineAttack(Acting)
                  /\ ~InSight(Acting.position, units[targetId].position),
               attackUnit(currentUnitId, targetId))
  /\ Rejects(Short(1), aimAction(currentUnitId))
  /\ Rejects(Short(1), defendAction(currentUnitId))
  /\ Rejects(Short(1), dropProneAction(currentUnitId))
  /\ Rejects(Short(1), braceAction(currentUnitId))
  /\ Rejects(Short(1), takeCoverEnhancedAction(currentUnitId))
  /\ Rejects(Short(1) \/ Acting.class # "voidguard", raiseShieldAction(currentUnitId))
  /\ Rejects(Short(1) \/ ~AdjacentToCover(Acting.position),
             takeCoverAction(currentUnitId))
  /\ Rejects(Short(1) \/ CannotReload(Acting), reloadAction(currentUnitId))
  /\ Rejects(\/ Short(1)
             \/ Acting.class # "voidguard"
             \/ ~HasEffect(Acting.statusEffects, "shieldRaised")
             \/ shieldWallAllies(units, currentUnitId) = {},
             shieldWallAction(currentUnitId))
  /\ Rejects(\/ Short(2)
             \/ Acting.class # "voidguard"
             \/ slamTargets(units, currentUnitId) = {},
             gravitonSlamAction(currentUnitId))
  /\ Rejects(Short(2) \/ Acting.class # "asteroidMiner",
             precisionDrillingAction(currentUnitId))
  /\ \A targetId \in UnitIds : \A choice \in {"heal", "damage"} :
       Rejects(\/ Short(2)
               \/ Acting.class # "brewmasterEngineer"
               \/ calculateDistance(Acting.position, units[targetId].position) # 1
               \/ units[targetId].type # "dwarf"
               \/ units[targetId].hp <= 0,
               combatBrewAction(currentUnitId, targetId, choice))
  /\ \A targetId \in UnitIds :
       Rejects(Short(abilityCostOf(Acting)),
               useAbility(currentUnitId, targetId, noPosition))
  /\ \A targetPos \in SenseTargets :
       Rejects(Short(abilityCostOf(Acting)),
               useAbility(currentUnitId, noTarget, targetPos))

\* C7: a command rejected for too few points, no line of sight, no ammo, no
\* adjacent cover, the wrong class or a destination that is no valid move
\* leaves every unit, the cursor, the round and the phase as they were and
\* appends at most one log entry.
C7_RejectionsLeaveNoTrace == [][RejectionsLeaveNoTrace]_ctlvars

\* a command has been refused with a log entry after the acting unit had
\* already spent points in its turn
C7_Refused ==
  /\ turnsEnded = 0
  /\ Acting.actionsRemaining < ACTIONS_PER_TURN
  /\ combatLog = <<[round |-> round, type |-> "system"]>>

\* C8: attackUnit against a target farther away than the attacker's weapon
\* range (1 without a ranged weapon) is rejected: no unit, cursor, round or
\* phase changes.
C8_OutOfRangeRejected ==
  [][\A targetId \in UnitIds \ {currentUnitId} :
       /\ attackUnit(currentUnitId, targetId)
       /\ calculateDistance(Acting.position, units[targetId].position) > WeaponRange(Acting)
       => Frozen
    ]_ctlvars

\* the units an attack rolls against
RolledAgainst(attackerId, targetId) ==
  IF isLineAttack(units[attackerId]) THEN unitsInLine(units, attackerId, targetId)
  ELSE {targetId}

\* C9: an attack that would roll against a unit the attacker has no
\* corner-to-corner line of sight to (the target of a single strike, any unit
\* on the line of a line attack) is rejected: no hp, budget or ammo changes.
C9_SightBeforeRoll ==
  [][\A targetId \in UnitIds \ {currentUnitId} :
       /\ attackUnit(currentUnitId, targetId)
       /\ \E i \in RolledAgainst(currentUnitId, targetId) :
            ~InSight(Acting.position, units[i].position)
       => units' = units
    ]_ctlvars

HasMagazine(u) == HasRangeWeapon(u) /\ u.currentAmmo # undefined

AmmoWithinBounds ==
  \A i \in UnitIds :
    HasMagazine(units[i]) =>
      0 <= units[i].currentAmmo /\ units[i].currentAmmo <= maxAmmo(units[i])

AmmoAccounted ==
  /\ \A targetId \in UnitIds \ {currentUnitId} :
       \/ /\ OutOfAmmo(Acting) => UNCHANGED vars
          /\ HasMagazine(Acting) /\ attackUnitAccepted(currentUnitId, targetId) =>
               units'[currentUnitId].currentAmmo = Acting.currentAmmo - 1
       \/ ~attackUnit(currentUnitId, targetId)
  /\ \A i \in UnitIds :
       units'[i].currentAmmo # units[i].currentAmmo =>
         \/ /\ units'[i].currentAmmo = units[i].currentAmmo - 1
            /\ units'[i].strikesThisTurn = units[i].strikesThisTurn + 1
         \/ /\ units'[i].currentAmmo = maxAmmo(units[i])
            /\ units'[i].strikesThisTurn = units[i].strikesThisTurn

HasAmmoPool(u) == maxAmmo(u) # undefined /\ u.currentAmmo # undefined

\* the units after a reload of the acting unit: a full magazine for one point
AfterReload ==
  [units EXCEPT ![currentUnitId].currentAmmo = maxAmmo(Acting),
                ![currentUnitId].actionsRemaining = @ - 1]

\* C11: reloadAction on a unit with an ammo pool and at least one action
\* point sets currentAmmo to maxAmmo and takes exactly one point, whatever
\* the ammo was before; on a unit without an ammo pool or without points it
\* changes no unit.
C11_Reload ==
  [][\/ units' = (IF HasAmmoPool(Acting) /\ Acting.actionsRemaining >= 1
                   THEN AfterReload ELSE units)
     \/ ~reloadAction(currentUnitId)]_ctlvars

\* a unit has fired twice and then reloaded: its magazine is full again and
\* its three points are spent
C11_Refilled ==
  /\ HasAmmoPool(Acting)
  /\ Acting.strikesThisTurn = 2
  /\ Acting.actionsRemaining = 0
  /\ Acting.currentAmmo = maxAmmo(Acting)
  /\ combatLog # NoEntries
  /\ Last(combatLog).type = "ability"

\* the penalty of the schedule after k strikes in the turn
SchedulePenalty(k) == IF k = 0 THEN 0 ELSE IF k = 1 THEN 5 ELSE 10

\* the total of a strike of unit i at unit j, single-target or line, is the
\* roll plus the attack bonus (less the cover penalty of a line attack) less
\* `penalty`
StrikeTotalsLess(i, j, penalty) ==
  IF isLineAttack(units[i])
  THEN LET setup == LineSetup(units, i, j)
       IN  \A roll \in rollD20 :
             LineResult(setup, roll, 0).total
               = roll + setup.attackBonus - setup.coverPenalty - penalty
  ELSE LET setup == StrikeSetup(units, i, j)
       IN  \A roll \in rollD20 :
             StrikeResult(setup, roll, 0).total = roll + setup.attackBonus - penalty

\* C12: the multiple-attack penalty taken off a strike's total is 0 with no
\* strike made this turn, 5 after one and 10 after two or more; for every
\* reachable strikesThisTurn the index min(strikesThisTurn, last index) is
\* inside the schedule and not negative.
C12_PenaltySchedule ==
  \A i \in UnitIds :
    /\ units[i].strikesThisTurn >= 0
    /\ Min(units[i].strikesThisTurn, Len(MAP_PENALTIES) - 1) \in 0 .. (Len(MAP_PENALTIES) - 1)
    /\ \A j \in UnitIds \ {i} :
         StrikeTotalsLess(i, j, SchedulePenalty(units[i].strikesThisTurn))

\* a unit has made its third strike of the turn: the strike was rolled with
\* the last entry, and its counter is now past the last index
C12_ThirdStrike ==
  \E i \in UnitIds : units[i].strikesThisTurn = Len(MAP_PENALTIES)

\* the step is an endTurn that begins the turn of unit i
TurnBegins(i) == TurnEnds /\ i = currentUnitId' /\ units'[i].hp > 0

\* the step is an accepted strike of unit i
StrikesNow(i) ==
  /\ i = currentUnitId
  /\ \E targetId \in UnitIds \ {i} :
       attackUnitAccepted(i, targetId) /\ attackUnit(i, targetId)

\* the counter of unit i over the step: 0 when its turn begins, one more
\* when it strikes, the same otherwise
CounterStep(i) ==
  IF TurnBegins(i) THEN units'[i].strikesThisTurn = 0
  ELSE \/ /\ units'[i].strikesThisTurn = units[i].strikesThisTurn
          /\ ~StrikesNow(i)
       \/ /\ units'[i].strikesThisTurn = units[i].strikesThisTurn + 1
          /\ StrikesNow(i)

\* C13: strikesThisTurn of a unit is set to 0 exactly when the unit's turn
\* begins and grows by exactly 1 on each of its accepted strikes (single
\* target or line); the completion of a round and the expiry of effects, the
\* turns of other units, rejected strikes and every other action leave it as
\* it is.
C13_StrikeCounter == [][\A i \in UnitIds : CounterStep(i)]_ctlvars

\* round 2 has begun with the turn of a unit that fired in round 1 (its
\* magazine is short) and whose counter is 0 again, while the unit whose turn
\* completed the round keeps the count of its strikes
C13_NewTurn ==
  /\ round = 2
  /\ HasAmmoPool(Acting)
  /\ Acting.currentAmmo < maxAmmo(Acting)
  /\ Acting.strikesThisTurn = 0
  /\ Acting.actionsRemaining = ACTIONS_PER_TURN
  /\ \E i \in UnitIds \ {currentUnitId} : units[i].strikesThisTurn > 0

\* the call on the bench has returned
Returned(fn) == call.fn = fn /\ call.result # Pending

CoverTiers ==
  { [type |-> "none", bonus |-> 0], [type |-> "lesser", bonus |-> 1],
    [type |-> "standard", bonus |-> 2], [type |-> "greater", bonus |-> 4] }

TierOf(cover) == [type |-> cover.type, bonus |-> cover.bonus]

\* the bonus each cell strictly between the two ends of the center-to-center
\* line offers by itself
SourceBonus(cell, c) ==
  LET terrain == IF c.grid[cell] = "wall" THEN {4}
                 ELSE IF TerrainCoverApplies(c.attacker, c.target, cell, c.grid)
                   THEN {2} ELSE {}
      creature == IF cell \in c.living THEN {1} ELSE {}
  IN  terrain \cup creature

CoverSources(c) ==
  UNION {SourceBonus(cell, c) : cell \in CoverPath(c.attacker, c.target)}

HighestSource(c) ==
  IF CoverSources(c) = {} THEN 0
  ELSE CHOOSE b \in CoverSources(c) : \A other \in CoverSources(c) : other <= b

ObstaclesOnPath(c) ==
  {cell \in CoverPath(c.attacker, c.target) : c.grid[cell] \in {"crate", "door"}}

\* the attacker shoots around the obstacle: adjacent to it, the target is not
ShotAround(cell, c) ==
  /\ calculateDistance(c.attacker, cell) = 1
  /\ calculateDistance(c.target, cell) # 1

\* nothing on the path but crates and doors
OnlyObstacles(c) ==
  \A cell \in CoverPath(c.attacker, c.target) :
     c.grid[cell] # "wall" /\ cell \notin c.living

\* C15: a crate or door on the center-to-center path grants standard cover
\* (+2) unless the attacker is adjacent to it and the target is not; when
\* every crate or door on the path is shot around in this way and there is no
\* other source of cover on the path, the bonus is 0.
C15_AdjacencyRule ==
  Returned("getCover") =>
    /\ (\E cell \in ObstaclesOnPath(call) : ~ShotAround(cell, call))
         => /\ call.result.bonus >= 2
            /\ OnlyObstacles(call) => TierOf(call.result) = [type |-> "standard", bonus |-> 2]
    /\ (OnlyObstacles(call) /\ \A cell \in ObstaclesOnPath(call) : ShotAround(cell, call))
         => call.result.bonus = 0

\* the attacker stands next to a crate that lies between it and a target two
\* or more cells beyond, nothing else is on the path, and no cover is granted
C15_ShotAroundCrate ==
  /\ Returned("getCover")
  /\ \E cell \in ObstaclesOnPath(call) :
        call.grid[cell] = "crate" /\ ShotAround(cell, call)
  /\ OnlyObstacles(call)
  /\ call.result = NoCover

\* the target carries the effect of takeCoverAction or of
\* takeCoverEnhancedAction
TookCover(effects) ==
  HasEffect(effects, "takingCover") \/ HasEffect(effects, "takingCoverEnhanced")

OneTierUp(tier) ==
  IF tier.type \in {"none", "lesser"} THEN [type |-> "standard", bonus |-> 2]
  ELSE [type |-> "greater", bonus |-> 4]

\* C16: when the target has the take-cover effect its computed cover is
\* upgraded one tier for the attack (none and lesser become standard, standard
\* becomes greater, greater stays greater); without the effect the computed
\* cover is used unchanged.
C16_TakeCoverUpgrade ==
  Returned("getCoverWithEffects") =>
    LET computed == getCover(call.attacker, call.target, call.grid, call.living)
    IN  IF TookCover(call.effects)
        THEN TierOf(call.result) = OneTierUp(TierOf(computed))
        ELSE call.result = computed

\* the cost of entering a cell
EntryCost(cell, grid) == IF grid[cell] = "crate" THEN 2 ELSE 1

\* a cell a path may enter: on the grid, no wall, no living unit
Enterable(cell, c) ==
  /\ cell \in Cells
  /\ c.grid[cell] # "wall"
  /\ cell \notin c.occupied

Neighbours(cell) == Range(getAdjacentPositions(cell))

\* the cells with an 8-connected path from the start of accumulated entry
\* cost <= budget through enterable cells (the start included)
RECURSIVE WithinCost(_, _)
WithinCost(c, budget) ==
  IF budget <= 0 THEN {c.start}
  ELSE LET one == WithinCost(c, budget - 1)
           two == IF budget >= 2 THEN WithinCost(c, budget - 2) ELSE {}
           step(from, cost) ==
             {cell \in UNION {Neighbours(p) : p \in from} :
                 Enterable(cell, c) /\ EntryCost(cell, c.grid) = cost}
       IN  one \cup step(one, 1) \cup step(two, 2)

Reachable(c, budget) == WithinCost(c, budget) \ {c.start}

\* C17: getMovementRange returns exactly the cells other than the start that
\* have an 8-connected path of accumulated entry cost (1 per floor or door
\* cell, 2 per crate cell) <= speed through cells that are neither walls nor
\* occupied by a living unit.
C17_ExactRange ==
  Returned("getMovementRange") =>
    \A sp \in Speeds : call.result[sp] = Reachable(call, sp)

\* every returned cell has such a path (the half of C17 the code keeps)
C17_OnlyReachable ==
  Returned("getMovementRange") =>
    \A sp \in Speeds : call.result[sp] \subseteq Reachable(call, sp)

\* C18: for speeds s <= s', every cell returned with speed s is also returned
\* with speed s'.
C18_SpeedMonotone ==
  Returned("getMovementRange") =>
    \A s \in Speeds : \A t \in Speeds :
       s <= t => call.result[s] \subseteq call.result[t]

\* the center-to-center traced line crosses no wall cell other than the two
\* end cells
CenterLineClear(c) == isLineClear(getCenter(c.from), getCenter(c.to), c.grid)

\* C19: for every pair of cells and every wall layout, if the
\* center-to-center traced line between the two cells crosses no wall cell
\* other than the two end cells, hasLineOfSight between them is true.
C19_CenterClearImpliesSight ==
  Returned("hasLineOfSight") => (CenterLineClear(call) => call.result.value)

\* the step resolves a line attack of unit a that the controller issued
\* against the declared target t
BeamFired(a, t) ==
  /\ a = currentUnitId
  /\ isLineAttack(units[a])
  /\ units'[a].strikesThisTurn = units[a].strikesThisTurn + 1
  /\ call'.fn = "attackUnit"
  /\ call'.targetId = t

\* the living units other than the attacker on the line traced from the
\* attacker to the declared target (the target's cell included)
OnTracedLine(a, t) ==
  {i \in UnitIds \ {a} :
      /\ units[i].hp > 0
      /\ InSeq(units[i].position,
               getLinePositions(units[a].position, units[t].position))}

\* the living units behind the declared target: the line traced from the
\* attacker to them passes through the target's cell
BehindTarget(a, t) ==
  {i \in UnitIds \ {a, t} :
      /\ units[i].hp > 0
      /\ InSeq(units[t].position,
               getLinePositions(units[a].position, units[i].position))}

\* the per-unit outcomes (hit or miss) the line attack logged after its
\* summary entry
Outcomes == Len(combatLog') - 1

\* the roll against unit i was made on its own: its hp drops by one of the
\* damages the dice give against its own AC and cover, or not at all
RolledOnItsOwn(a, i) ==
  \E damage \in LineDamages(units, a, i) :
     units'[i].hp = TakeDamage(units[i].hp, damage)

\* C20: a line attack rolls an independent attack against every living unit
\* other than the attacker on the traced line, the units colinear behind the
\* declared target included; a unit friendly to the attacker is not exempted.
C20_BeamThroughTarget ==
  [][\A a \in UnitIds : \A t \in UnitIds \ {a} :
       BeamFired(a, t) =>
         /\ Outcomes = Cardinality(OnTracedLine(a, t) \cup BehindTarget(a, t))
         /\ \A i \in OnTracedLine(a, t) \cup BehindTarget(a, t) : RolledOnItsOwn(a, i)]_ctlvars

\* C20 (amended): a line attack rolls an independent attack against every
\* living unit other than the attacker on the line traced from the attacker
\* to the declared target, friend or foe, the target included; the line ends
\* at the declared target, and a unit behind it receives no roll and keeps
\* its hp.
C20_BeamToTarget ==
  [][\A a \in UnitIds : \A t \in UnitIds \ {a} :
       BeamFired(a, t) =>
         /\ Outcomes = Cardinality(OnTracedLine(a, t))
         /\ \A i \in OnTracedLine(a, t) : RolledOnItsOwn(a, i)
         /\ \A i \in UnitIds \ (OnTracedLine(a, t) \cup {a}) :
               units'[i].hp = units[i].hp]_ctlvars

\* the drone has fired at the Void Hound: the goblin between them, friendly
\* to the drone, was hit, the hound was missed, and the two dwarves behind
\* the hound had no roll
C20_FriendHitFoeMissed ==
  /\ call = [fn |-> "attackUnit", attackerId |-> 1, targetId |-> 3]
  /\ units[1].strikesThisTurn = 1
  /\ units[2].type = units[1].type
  /\ units[2].hp < maxHp(units[2])
  /\ units[3].hp = maxHp(units[3])
  /\ [k \in DOMAIN combatLog |-> combatLog[k].type] = <<"damage", "damage", "miss">>

\* the step is a selectAction of one of the kinds the controller chooses from
Selects == \E action \in ChooseKinds : selectAction(action)

\* C21: a unit with hp <= 0 is never activated by endTurn and never appears
\* in the valid-target set computed by selectAction, yet it stays in the
\* units collection and in the initiative order: neither list loses an
\* element during an encounter.
C21_FallenOutOfPlay ==
  [][/\ DOMAIN units' = DOMAIN units
     /\ turnOrder' = turnOrder
     /\ \A i \in UnitIds :
          (units'[i].isActive /\ ~units[i].isActive) => units'[i].hp > 0
     /\ \/ \A k \in DOMAIN validTargets' : units'[validTargets'[k]].hp > 0
        \/ ~Selects]_ctlvars

\* the parts of C21 about endTurn and the two lists
C21_FallenSkipped ==
  [][/\ DOMAIN units' = DOMAIN units
     /\ turnOrder' = turnOrder
     /\ \A i \in UnitIds :
          (units'[i].isActive /\ ~units[i].isActive) => units'[i].hp > 0]_ctlvars

\* the knockback recorded by the step: pushUnit was called in the state the
\* step leaves
Pushed == call = NoCall /\ call' # NoCall

\* the cell at `distance` along the direction of the knockback, from where the
\* unit stood
CellAt(distance) ==
  <<units[call'.unitId].position[1] + call'.direction[1] * distance,
    units[call'.unitId].position[2] + call'.direction[2] * distance>>

\* a unit can be put on the cell: inside the grid, not a wall, and no other
\* living unit on it
Free(cell, unitId) ==
  /\ cell \in Cells
  /\ CellType(cell) # "wall"
  /\ \A i \in UnitIds \ {unitId} : units[i].hp > 0 => units[i].position # cell

IsBraced(unitId) == \E k \in DOMAIN units[unitId].statusEffects :
                       units[unitId].statusEffects[k].type = "braced"

\* the step moved the unit to the cell and no other unit
MovedTo(unitId, cell) ==
  /\ units'[unitId].position = cell
  /\ \A i \in UnitIds \ {unitId} : units'[i].position = units[i].position

\* C22: a knockback whose destination (position + direction * distance) is
\* outside the grid, a wall or held by another living unit returns failure and
\* changes nothing; any other knockback of a unit that is not braced returns
\* success and puts the unit exactly on the destination.
C22_PushAllOrNothing ==
  [][\/ ~Pushed
     \/ /\ ~Free(CellAt(call'.distance), call'.unitId)
        /\ ~call'.result
        /\ vars' = vars
     \/ /\ Free(CellAt(call'.distance), call'.unitId)
        /\ \/ IsBraced(call'.unitId)
           \/ call'.result /\ MovedTo(call'.unitId, CellAt(call'.distance))]_ctlvars

\* a unit that is not braced was knocked two cells back, past a cell another
\* unit stands on
C22_PushedTwoCells ==
  /\ call # NoCall
  /\ call.result
  /\ call.distance = 2
  /\ ~IsBraced(call.unitId)
  /\ \E i \in UnitIds \ {call.unitId} :
       /\ units[i].hp > 0
       /\ units[i].position = <<units[call.unitId].position[1] - call.direction[1],
                                units[call.unitId].position[2] - call.direction[2]>>

\* C23: a knockback of a braced unit, whatever the distance requested, moves
\* the unit exactly one cell when the cell at distance 1 is free, whatever
\* lies at the distance requested, and fails without change otherwise.
C23_BracedOneCell ==
  [][\/ ~Pushed
     \/ ~IsBraced(call'.unitId)
     \/ /\ Free(CellAt(1), call'.unitId)
        /\ call'.result
        /\ MovedTo(call'.unitId, CellAt(1))
     \/ /\ ~Free(CellAt(1), call'.unitId)
        /\ ~call'.result
        /\ vars' = vars]_ctlvars

\* a non-empty run of decimal digits
Numeral(s) ==
  /\ Len(s) >= 1
  /\ \A i \in DOMAIN s : s[i] \in {"0","1","2","3","4","5","6","7","8","9"}

\* the string reads NdS or NdS+B
DiceNotation(s) ==
  \E d \in DOMAIN s :
    /\ s[d] = "d"
    /\ Numeral(SubSeq(s, 1, d - 1))
    /\ \/ Numeral(SubSeq(s, d + 1, Len(s)))
       \/ \E p \in (d + 1)..Len(s) :
            /\ s[p] = "+"
            /\ Numeral(SubSeq(s, d + 1, p - 1))
            /\ Numeral(SubSeq(s, p + 1, Len(s)))

\* C24: rolling damage for a string that is neither NdS nor NdS+B ends in an
\* error and never in a damage result, be it 0 or a default.
C24_BadNotationIsError ==
  (Returned("rollDamage") /\ ~DiceNotation(call.diceString))
     => call.result.type = "error"

\* the encounter is over
Over == phase \in {"victory", "defeat"}

\* C25: once the phase is victory or defeat it stays what it is: no command
\* and no enemy turn takes the encounter from one to the other or back to
\* combat.
C25_OutcomeIsFinal == [][Over => phase' = phase]_ctlvars

IsProne(u) == \E k \in DOMAIN u.statusEffects : u.statusEffects[k].type = "prone"

\* the step relocated the unit
Relocated(i) == units'[i].position # units[i].position

\* C26: a unit that lies prone stays prone through every step in which it
\* does not move, the completion of a round included: the round-end expiry
\* never takes the prone effect away.
C26_ProneUntilMoved ==
  [][\A i \in UnitIds : (IsProne(units[i]) /\ ~Relocated(i)) => IsProne(units'[i])]_ctlvars

\* C27: a unit relocated by moveUnit or stepUnit carries no prone effect
\* afterwards.
C27_MovedUnitStandsUp ==
  [][\A i \in UnitIds : Relocated(i) => ~IsProne(units'[i])]_ctlvars

\* C28: no two living units share a cell and no living unit stands on a
\* wall, whatever action was selected before a unit was moved, stepped or
\* pushed.
C28_OneUnitPerCell ==
  \A i \in UnitIds : units[i].hp > 0 =>
    /\ CellType(units[i].position) # "wall"
    /\ \A j \in UnitIds \ {i} : units[j].hp > 0 => units[j].position # units[i].position

\* C29: no unit carries two status effects with the same tag: taking a stance
\* again replaces the effect it gave before.
C29_OneEffectPerTag ==
  \A i \in UnitIds :
    \A k, l \in DOMAIN units[i].statusEffects :
      k # l => units[i].statusEffects[k].type # units[i].statusEffects[l].type

\* the damage buff a unit carries from a Combat Brew, 0 without one
BrewBuff(u) ==
  IF \E k \in DOMAIN u.statusEffects : u.statusEffects[k].type = "combatBrewDamage"
  THEN 2 ELSE 0

\* C30: a critical hit of an attacker carrying a Combat Brew damage buff b
\* deals twice the dice total plus weapon bonus, plus b: the buff is added
\* after the doubling and is not doubled itself.  Stated of every strike the
\* unit whose turn it is can make, for every outcome of the dice.
C30_BuffNotDoubled ==
  \A i \in {currentUnitId} : BrewBuff(units[i]) > 0 =>
    \A j \in {t \in UnitIds \ {i} : attackUnitAccepted(i, t)} :
      \A roll \in rollD20 :
        \A rolls \in DamageRolls(damageOf(units[i])) :
          LET outcome == StrikeOutcome(units, i, j, roll, rolls)
              weapon == rollDamage(damageOf(units[i]), rolls)
          IN  outcome.critical =>
                outcome.damage
                  = 2 * (SumSeq(weapon.rolls) + weapon.bonus) + BrewBuff(units[i])

\* the step is a strike, resolved with the dice, of the attacker recorded in
\* call
Struck ==
  /\ call'.fn = "attackUnit"
  /\ units'[call'.attackerId].strikesThisTurn
       = units[call'.attackerId].strikesThisTurn + 1

\* the strike of the step hit: the first entry of its log batch says so
StruckHome == combatLog'[1].type = "damage"

\* the living units around the target of the strike, the target left out
AroundTarget ==
  {i \in UnitIds \ {call'.targetId} :
     /\ units[i].hp > 0
     /\ Abs(units[i].position[1] - units[call'.targetId].position[1]) <= 1
     /\ Abs(units[i].position[2] - units[call'.targetId].position[2]) <= 1
     /\ units[i].position # units[call'.targetId].position}

C32_LineAsStrike ==
  \A i \in {currentUnitId} : isLineAttack(units[i]) =>
    \A t \in UnitIds \ {i} :
      \A j \in unitsInLine(units, i, t) :
        \A roll \in rollD20 :
          LET line == LineResult(LineSetup(units, i, j), roll, 0)
              strike == StrikeResult(StrikeSetup(units, i, j), roll, 0)
          IN  line.hit = strike.hit /\ line.critical = strike.critical

Drilling(u) ==
  \E k \in DOMAIN u.statusEffects : u.statusEffects[k].type = "precisionDrilling"

\* the bonus of a status effect of the unit, 0 when it has none
Bonus(u, tag) ==
  IF \E k \in DOMAIN u.statusEffects : u.statusEffects[k].type = tag
  THEN (CHOOSE e \in Range(u.statusEffects) : e.type = tag).value
  ELSE 0

\* the AC a strike at the unit is compared with, for the cover bonus given
ArmourWith(u, cover) ==
  ac(u) + cover + Bonus(u, "shieldWall") + Bonus(u, "defending") + Bonus(u, "shieldRaised")

\* the cover the target has from the attacker: terrain, creature or take-cover
ComputedCover(i, j) ==
  getCoverWithEffects(units[i].position, units[j].position, initializeGrid,
                      LivingCells(units), units[j].statusEffects).bonus

\* every strike the acting unit can make hits exactly when its total reaches
\* the target's AC with cover 0 if it is drilling, with the computed cover if
\* it is not
CoverUsed ==
  \A j \in {t \in UnitIds \ {currentUnitId} : attackUnitAccepted(currentUnitId, t)} :
    ~isLineAttack(Acting) =>
      \A roll \in rollD20 :
        StrikeResult(StrikeSetup(units, currentUnitId, j), roll, 0).hit
          <=> roll + attackBonusOf(Acting) + Bonus(Acting, "aimed")
                - SchedulePenalty(Acting.strikesThisTurn)
                >= ArmourWith(units[j],
                              IF Drilling(Acting) THEN 0
                              ELSE ComputedCover(currentUnitId, j))

\* the step counted a strike of unit i
Counted(i) == units'[i].strikesThisTurn = units[i].strikesThisTurn + 1

\* a strike consumes the effect; without a strike the effect stays until the
\* round completes
DrillConsumed ==
  \A i \in UnitIds :
    \/ ~Drilling(units[i])
    \/ Counted(i) /\ ~Drilling(units'[i])
    \/ ~Counted(i) /\ (Drilling(units'[i]) \/ round' # round)

Ordered(fn) == call = NoCall /\ call' # NoCall /\ call'.fn = fn

\* the preconditions of the ability commands, for the unit and the target of
\* the command the step issues
WrongClass(class) == units[call'.unitId].class # class
TooFewPoints(cost) == units[call'.unitId].actionsRemaining < cost
PreconditionFails ==
  \/ /\ Ordered("shieldWallAction")
     /\ \/ WrongClass("voidguard") \/ TooFewPoints(1)
        \/ ~HasEffect(units[call'.unitId].statusEffects, "shieldRaised")
        \/ shieldWallAllies(units, call'.unitId) = {}
  \/ /\ Ordered("gravitonSlamAction")
     /\ \/ WrongClass("voidguard") \/ TooFewPoints(2)
        \/ slamTargets(units, call'.unitId) = {}
  \/ /\ Ordered("precisionDrillingAction")
     /\ (WrongClass("asteroidMiner") \/ TooFewPoints(2))
  \/ /\ Ordered("combatBrewAction")
     /\ \/ WrongClass("brewmasterEngineer") \/ TooFewPoints(2)
        \/ calculateDistance(units[call'.unitId].position,
                             units[call'.targetId].position) # 1
        \/ units[call'.targetId].type # "dwarf" \/ units[call'.targetId].hp <= 0
  \/ /\ Ordered("useAbility")
     /\ \/ units[call'.unitId].type # "dwarf"
        \/ TooFewPoints(abilityCostOf(units[call'.unitId]))

\* the step wrote a rejection entry and nothing else
Rejected ==
  /\ combatLog' = addLogEntry(NoEntries, "system", round)
  /\ combatLog' # combatLog
  /\ UNCHANGED <<units, currentUnitId, turnOrder, round, phase,
                 selectedAction, validMoves, validTargets, revealedCells>>

\* C34: an ability command whose precondition fails (wrong class, too few
\* action points, shield not raised, nobody adjacent, target not adjacent or
\* not a living ally) appends a rejection entry to the combat log and changes
\* nothing else; it is never a silent no-op.
C34_RejectionIsLogged == [][PreconditionFails => Rejected]_ctlvars


\* the units marked active
ActiveUnits == {i \in UnitIds : units[i].isActive}

\* C35: while the phase is combat exactly one unit is marked active, and it
\* is the unit the cursor points at; no other unit has an open turn.
C35_OneOpenTurn == phase = "combat" => ActiveUnits = {currentUnitId}


\* the step is a callback of the enemy routine that issues the command
AiIssues(fn) == call' # call /\ call'.issued.fn = fn /\ call'.issued.by # noTarget

\* the nearest living dwarf is within the weapon range of the unit, in sight
InReach(e) ==
  /\ LivingDwarves(units) # {}
  /\ LET target == units[nearestDwarf(units, e)]
     IN  /\ calculateDistance(units[e].position, target.position) <= WeaponRange(units[e])
         /\ getLineOfSight(units[e].position, target.position, initializeGrid)

\* the distances to the nearest living dwarf from the cells the unit can reach
Approaches(e) ==
  LET target == units[nearestDwarf(units, e)]
  IN  {calculateDistance(c, target.position) :
         c \in Range(getMovementRange(units[e].position, speed(units[e]),
                                      initializeGrid, LivingCells(units)))}

\* a strike or a move toward the nearest living dwarf is open to the unit
Beneficial(e) ==
  /\ units[e].actionsRemaining > 0
  /\ LivingDwarves(units) # {}
  /\ \/ InReach(e)
     \/ \E d \in Approaches(e) :
          d < calculateDistance(units[e].position,
                                units[nearestDwarf(units, e)].position)

AiStrikesInReach ==
  AiIssues("attackUnit") => InReach(call'.issued.by)

AiMovesClosest ==
  AiIssues("moveUnit") =>
    LET e == call'.issued.by
        target == units[nearestDwarf(units, e)]
    IN  /\ ~InReach(e)
        /\ \A d \in Approaches(e) :
             calculateDistance(units'[e].position, target.position) <= d
        /\ calculateDistance(units'[e].position, target.position)
             <= calculateDistance(units[e].position, target.position)

AiEndsWhenDone ==
  AiIssues("endTurn") => ~Beneficial(call'.issued.by)

\* C36: on an enemy's turn the routine strikes the nearest living dwarf when
\* it is within weapon range and in sight, otherwise moves to the reachable
\* cell closest to it (never farther away), and ends the turn only when the
\* action budget is spent or neither a strike nor an approach is left.
C36_GreedyUntilDone == [][AiStrikesInReach /\ AiMovesClosest /\ AiEndsWhenDone]_ctlvars


OnEnemy == units[currentUnitId].type = "enemy"

\* the routine's endTurn leaves the cursor on a living unit with a fresh budget
AiEndTurnActivates ==
  AiIssues("endTurn") =>
    /\ units'[currentUnitId'].hp > 0
    /\ units'[currentUnitId'].actionsRemaining = ACTIONS_PER_TURN

\* on an enemy's turn a timer of the routine is pending: with none left, no
\* callback is to come and endTurn is never called
RoutineRuns == (phase = "combat" /\ OnEnemy /\ Timing) => call.pending # << >>

\* C37: whenever the phase is combat and the cursor is on an enemy, the
\* routine is on its way to endTurn for that unit (a timer of it is pending,
\* and timers fire), so the encounter does not stall on an enemy turn; after
\* that endTurn the cursor is on a living unit with a fresh budget of 3.
C37_EnemyTurnEnds == [](RoutineRuns) /\ [][AiEndTurnActivates]_ctlvars


AiCommands == {"selectAction", "attackUnit", "moveUnit", "endTurn"}

\* a command of the routine is applied on the turn of the unit it was started for
AiOnOwnTurn ==
  \A fn \in AiCommands : AiIssues(fn) => currentUnitId = call'.issued.by

\* C38: every command the enemy routine issues is applied while the cursor is
\* on the enemy it was started for, its closing endTurn ends no other unit's
\* turn, and no more than one routine is under way at a time, also when the
\* encounter is restarted or endTurn is invoked while timers are pending.
C38_OneRoutinePerTurn == [](Len(call.pending) <= 1) /\ [][AiOnOwnTurn]_ctlvars


IsPrefix(s, t) == Len(s) <= Len(t) /\ SubSeq(t, 1, Len(s)) = s

\* the step leaves the entries of the log as a prefix of the new log, and the
\* entries it appends carry the round counter
Appended ==
  /\ IsPrefix(combatLog, combatLog')
  /\ \A k \in (Len(combatLog) + 1)..Len(combatLog') : combatLog'[k].round = round

RoundsAscend ==
  \A k \in 1..(Len(combatLog) - 1) : combatLog[k].round <= combatLog[k + 1].round

\* C39: within an encounter the combat log is append-only: every command
\* leaves the existing entries as a prefix of the new log, each appended entry
\* carries the value of the round counter at the time it is appended, and the
\* round numbers along the log do not decrease.
C39_LogAppendOnly == [](RoundsAscend) /\ [][Appended]_ctlvars

\* the log holds entries of the first round and an entry appended in the second
C39_TwoRounds ==
  /\ Len(combatLog) >= 3
  /\ combatLog[2].round = 1
  /\ Last(combatLog).round = 2
  /\ round = 2


\* C40: a unit whose hp has reached 0 never has hp > 0 again during the
\* encounter; no healing command raises the hp of a unit with hp <= 0.
C40_DeadStayDead ==
  [][\A i \in UnitIds : units[i].hp <= 0 => units'[i].hp <= 0]_ctlvars

====
